---------------------------- MODULE Spec2Model ----------------------------
(***************************************************************************)
(* Model of the Signals pipeline orchestrator (app/pipeline/orchestrator.py)*)
(* with its store adapter (app/pipeline/mongodb.py), its knowledge indexer *)
(* (app/pipeline/rag.py) and the synthesizer (app/pipeline/openrouter.py). *)
(*                                                                         *)
(* Strings are sequences of one-character strings; a Python dict is a      *)
(* function from keys to values (a record), so d.get(k, default) is Get.   *)
(* None, "" and {} are all falsy in the code's tests and are <<>> here.    *)
(***************************************************************************)
EXTENDS Integers, Sequences, FiniteSets, TLC

VARIABLES
    companies,        \* _db.companies: set of profile documents
    snapshots,        \* _db.snapshots: sequence of rows, in insertion order
    metrics_history,  \* _db.metrics_history: sequence of rows
    knowledge,        \* _db.knowledge: set of chunk documents
    runs,             \* per invocation of run_pipeline: its locals and position
    env,              \* the scenario: which inputs and outcomes the environment offers
    agent_call,       \* one call of agent_deep_dive: its position and locals
    jobs,             \* routes._jobs: search jobs by id, each with its background task
    call,             \* one call of a pure function: its argument and its result
    news_monitor,     \* the NewsMonitor instance: running, latest_news, subscribers
    streams           \* the stream_news generators: position, queue, what each yielded

news == <<news_monitor, streams>>

\* what lies beyond the pipeline: the components modelled on their own
beyond == <<agent_call, jobs, call, news>>

vars == <<companies, snapshots, metrics_history, knowledge, runs, env, beyond>>

store == <<companies, snapshots, metrics_history, knowledge>>

pipeline == <<store, runs, env>>

-----------------------------------------------------------------------------
(* Bounds of the model *)

\* character budget of a chunk, scaled down from the default of chunk_text
ChunkSize == 8

\* the two invocations of run_pipeline a behaviour holds
Runs == {1, 2}

\* max_polls of _poll_agent_job, scaled down from its default of 30
MaxPolls == 3

\* the most paragraphs a text handed to chunk_text on its own is built from
MaxParas == 3

-----------------------------------------------------------------------------
(* Strings *)

UpperLetters == <<"A", "B", "C", "D", "E", "F", "G", "H", "I", "J", "K", "L", "M",
                  "N", "O", "P", "Q", "R", "S", "T", "U", "V", "W", "X", "Y", "Z">>

LowerLetters == <<"a", "b", "c", "d", "e", "f", "g", "h", "i", "j", "k", "l", "m",
                  "n", "o", "p", "q", "r", "s", "t", "u", "v", "w", "x", "y", "z">>

Digits == {"0", "1", "2", "3", "4", "5", "6", "7", "8", "9"}

\* str.lower() on one character
Lower(c) ==
    IF \E i \in 1..26 : UpperLetters[i] = c
    THEN LowerLetters[CHOOSE i \in 1..26 : UpperLetters[i] = c]
    ELSE c

\* the class [a-z0-9] of make_slug's pattern
IsSlugChar(c) == (\E i \in 1..26 : LowerLetters[i] = c) \/ c \in Digits

Whitespace == {" ", "\n"}

RECURSIVE LStrip(_, _)
LStrip(s, drop) ==
    IF s # <<>> /\ Head(s) \in drop THEN LStrip(Tail(s), drop) ELSE s

RECURSIVE RStrip(_, _)
RStrip(s, drop) ==
    IF s # <<>> /\ s[Len(s)] \in drop THEN RStrip(SubSeq(s, 1, Len(s) - 1), drop) ELSE s

Strip(s, drop) == RStrip(LStrip(s, drop), drop)

\* re.sub(r"[^a-z0-9]+", "-", s): every maximal run of other characters -> one "-"
RECURSIVE SubNonAlnum(_, _)
SubNonAlnum(s, inRun) ==
    IF s = <<>> THEN <<>>
    ELSE IF IsSlugChar(Head(s)) THEN <<Head(s)>> \o SubNonAlnum(Tail(s), FALSE)
    ELSE IF inRun THEN SubNonAlnum(Tail(s), TRUE)
    ELSE <<"-">> \o SubNonAlnum(Tail(s), TRUE)

make_slug(name) ==
    LET low == [i \in 1..Len(name) |-> Lower(name[i])]
    IN  Strip(SubNonAlnum(low, FALSE), {"-"})

StartsWithHttp(s) == Len(s) >= 4 /\ SubSeq(s, 1, 4) = <<"h", "t", "t", "p">>

\* text.split("\n\n")
RECURSIVE Split(_, _)
Split(s, cur) ==
    IF s = <<>> THEN <<cur>>
    ELSE IF Len(s) >= 2 /\ s[1] = "\n" /\ s[2] = "\n"
         THEN <<cur>> \o Split(SubSeq(s, 3, Len(s)), <<>>)
    ELSE Split(Tail(s), Append(cur, Head(s)))

Sep == <<"\n", "\n">>

\* variant: the paragraph that does not fit is dropped when the chunk is sealed
RECURSIVE ChunkLoop_drop(_, _, _, _)
ChunkLoop_drop(ps, chunks, cur, chunk_size) ==
    IF ps = <<>>
    THEN IF Strip(cur, Whitespace) # <<>>
         THEN Append(chunks, Strip(cur, Whitespace))
         ELSE chunks
    ELSE LET p == Head(ps)
         IN  IF Len(cur) + Len(p) < chunk_size
             THEN ChunkLoop_drop(Tail(ps), chunks, cur \o p \o Sep, chunk_size)
             ELSE ChunkLoop_drop(Tail(ps),
                                 IF Strip(cur, Whitespace) # <<>>
                                 THEN Append(chunks, Strip(cur, Whitespace))
                                 ELSE chunks,
                                 <<>>, chunk_size)

\* the loop of chunk_text over the paragraphs, from (chunks, current_chunk)
RECURSIVE ChunkLoop(_, _, _, _)
ChunkLoop(ps, chunks, cur, chunk_size) ==
    IF ps = <<>>
    THEN IF Strip(cur, Whitespace) # <<>>
         THEN Append(chunks, Strip(cur, Whitespace))
         ELSE chunks
    ELSE LET p == Head(ps)
         IN  IF Len(cur) + Len(p) < chunk_size
             THEN ChunkLoop(Tail(ps), chunks, cur \o p \o Sep, chunk_size)
             ELSE ChunkLoop(Tail(ps),
                            IF Strip(cur, Whitespace) # <<>>
                            THEN Append(chunks, Strip(cur, Whitespace))
                            ELSE chunks,
                            p \o Sep, chunk_size)

chunk_text(text, chunk_size) ==
    IF text = <<>> THEN <<>>
    ELSE ChunkLoop(Split(text, <<>>), <<>>, <<>>, chunk_size)

-----------------------------------------------------------------------------
(* Python values *)

Get(d, k, dflt) == IF k \in DOMAIN d THEN d[k] ELSE dflt

\* a JSON value that is not an object (a list), as json.loads may return it
JsonList == [nonobject |-> "list"]

IsDict(v) == "nonobject" \notin DOMAIN v

Truthy(v) == v # <<>>

Or(a, b) == IF Truthy(a) THEN a ELSE b

\* d1 | d2 of dicts: keys of d2 win ({**d1, **d2}, and $set of d2 on d1)
Update(d1, d2) ==
    [k \in DOMAIN d1 \cup DOMAIN d2 |-> IF k \in DOMAIN d2 THEN d2[k] ELSE d1[k]]

Pending == [tag |-> "pending"]
Exc == [tag |-> "exc"]
Ok(v) == [tag |-> "ok", val |-> v]

\* what a settled task returned
Value(res) == Get(res, "val", <<>>)

-----------------------------------------------------------------------------
(* Inputs and the external capabilities' possible answers *)

NameAc == <<"A", "c">>              \* slug "ac"
NameBang == <<"!", "!">>            \* a name with no [a-z0-9] character: slug ""
NameAcme == <<"A", "c", "m", "e">>  \* the display name a completion may return
UrlX == <<"h", "t", "t", "p", ":", "x">>
UrlFound == <<"h", "t", "t", "p", ":", "a", "c">>  \* what _find_company_url may discover
DocRef == <<"d", "o", "c">>
Unknown == <<"u", "n", "k", "n", "o", "w", "n">>
UploadedDoc == <<"u", "p", "l", "o", "a", "d", "e", "d", "-", "d", "o", "c">>
UnknownCompany == <<"U", "n", "k", "n", "o", "w", "n", " ", "C", "o", "m", "p", "a", "n", "y">>

AGENT_MISSIONS ==
    << [name |-> "talent_scout", topic |-> "hiring_velocity", label |-> "H"],
       [name |-> "tech_auditor", topic |-> "dev_velocity", label |-> "D"],
       [name |-> "pricing_analyst", topic |-> "pricing_model", label |-> "P"] >>

Topics == {AGENT_MISSIONS[i].topic : i \in 1..Len(AGENT_MISSIONS)}

\* a schema-shaped result of mission i
AgentDict(i) ==
    CASE i = 1 -> [hiring_status |-> "Aggressive", open_roles_count |-> 42]
      [] i = 2 -> [update_frequency |-> "Weekly"]
      [] OTHER -> [has_free_tier |-> TRUE]

\* agent_deep_dive: {} on every failure it catches, else whatever JSON the
\* provider put under data/result/output (an object, or a list)
agent_deep_dive(i, tag) ==
    CASE tag = "exc" -> Exc
      [] tag = "empty" -> Ok(<<>>)
      [] tag = "dict" -> Ok(AgentDict(i))
      [] OTHER -> Ok(JsonList)

\* json.dumps(result, indent=2), by shape: the brackets and one mark per key
Dumps(v) ==
    IF IsDict(v)
    THEN <<"{">> \o [k \in 1..Cardinality(DOMAIN v) |-> "k"] \o <<"}">>
    ELSE <<"[", "]">>

\* "\n\n=== AGENT REPORT: <TOPIC> ===\n" + json.dumps(result)
Section(mission, result) ==
    <<"\n", "\n", "=", mission.label, "=", "\n">> \o Dumps(result)

\* homepage texts a scrape may return
PageShort == <<"p">>
PageLong == <<"p", "p", "p", "\n", "\n", "q", "q", "q", "q", "q", "q", "\n", "\n", "r">>

\* crawl_company(name_or_url): the task raises, the URL is not found (a bare
\* name only), or the crawl returns url and the combined text, never empty
crawl_company(target, out) ==
    CASE out.tag = "exc" -> Exc
      [] out.tag = "notfound" /\ ~StartsWithHttp(target) ->
            Ok([url |-> <<>>, raw |-> <<>>, error |-> "Could not find URL"])
      [] OTHER ->
            LET target_url == IF StartsWithHttp(target) THEN target ELSE UrlFound
            IN  Ok([url |-> target_url, raw |-> <<"S", ":">> \o out.page])

\* parse_document: raises on a non-200 answer, else the flattened text
parse_document(out) ==
    IF out.tag = "exc" THEN Exc
    ELSE Ok([extracted_text |-> out.text, raw |-> "data"])

DocText == <<"t", "t", "t", "t", "t", "\n", "\n", "u", "u", "u", "u", "u">>

\* the fallback object of analyze_company
Fallback(identifier, err) ==
    [name |-> identifier, summary |-> "Analysis failed",
     metrics |-> [sentiment |-> "Neutral", signal_strength |-> 0],
     error |-> err]

\* analyze_company: json.loads of the completion's content, or the fallback
\* when the call or the parse raises
analyze_company(name, url, completion) ==
    LET identifier == Or(name, Or(url, UnknownCompany))
    IN  IF completion.tag = "json" THEN completion.val
        ELSE Fallback(identifier, completion.tag)

\* JSON values a completion may hold
ObjFull ==
    [name |-> NameAcme, summary |-> "s",
     metrics |-> [sentiment |-> "Bullish", signal_strength |-> 150, pmf_score |-> 7]]
ObjBare == [summary |-> "s"]

-----------------------------------------------------------------------------
(* Store adapter (mongodb.py) *)

None == "None"

\* the key store_company writes under
StoreSlug(data) == Or(Get(data, "slug", <<>>), make_slug(Get(data, "name", Unknown)))

\* variant: an existing document keeps its analysis, the other fields are set
find_one_and_update_keeping(coll, slug, data, id) ==
    IF \E d \in coll : d.slug = slug
    THEN LET d == CHOOSE x \in coll : x.slug = slug
         IN  (coll \ {d}) \cup
                 {Update(d, [k \in DOMAIN data \ {"analysis"} |-> data[k]])}
    ELSE coll \cup {Update([_id |-> id], data)}

\* variant: the filter matches nothing, every call inserts
find_one_and_update_inserting(coll, slug, data, id) ==
    coll \cup {Update([_id |-> id], data)}

\* find_one_and_update({"slug": slug}, {"$set": data}, upsert=True)
find_one_and_update(coll, slug, data, id) ==
    IF \E d \in coll : d.slug = slug
    THEN LET d == CHOOSE x \in coll : x.slug = slug
         IN  (coll \ {d}) \cup {Update(d, data)}
    ELSE coll \cup {Update([_id |-> id], data)}

\* store_company(data) at time now, a new document getting _id id
store_company(coll, data, now, id) ==
    LET slug == StoreSlug(data)
    IN  find_one_and_update(coll, slug,
                            Update(data, [slug |-> slug, updated_at |-> now]), id)

\* get_company(slug): the documents that match (find_one returns one of them)
get_company(coll, slug) == {d \in coll : d.slug = slug}

\* toggle_watchlist(slug, enabled): update_one, no upsert
toggle_watchlist(coll, slug, enabled) ==
    IF \E d \in coll : d.slug = slug
    THEN LET d == CHOOSE x \in coll : x.slug = slug
         IN  (coll \ {d}) \cup {Update(d, [watchlist |-> enabled])}
    ELSE coll

\* variant: the row of the slug is replaced, one snapshot per slug
store_snapshot_replace(rows, slug, data, now) ==
    Append(SelectSeq(rows, LAMBDA row : row.slug # slug),
           [slug |-> slug, timestamp |-> now, data |-> data])

\* store_snapshot(slug, data)
store_snapshot(rows, slug, data, now) ==
    Append(rows, [slug |-> slug, timestamp |-> now, data |-> data])

\* variant: the sample of the slug is replaced, one sample per slug
record_metric_history_replace(rows, slug, metrics, now) ==
    IF ~Truthy(metrics) THEN rows
    ELSE Append(SelectSeq(rows, LAMBDA row : row.slug # slug),
                Update([slug |-> slug, timestamp |-> now], metrics))

\* record_metric_history(slug, metrics)
record_metric_history(rows, slug, metrics, now) ==
    IF ~Truthy(metrics) THEN rows
    ELSE Append(rows, Update([slug |-> slug, timestamp |-> now], metrics))

\* variant: the filter names the slug alone, as delete_knowledge(slug) does
delete_many_slug(coll, slug, source) == {d \in coll : d.company_slug # slug}

\* variant: the delete removes nothing
delete_many_nothing(coll, slug, source) == coll

\* coll.delete_many({"company_slug": slug, "source": source})
delete_many(coll, slug, source) ==
    {d \in coll : ~(d.company_slug = slug /\ d.source = source)}

\* the documents process_and_store_knowledge prepares from its chunks
KnowledgeDocs(slug, chunks, source, r) ==
    {[company_slug |-> slug, text |-> chunks[i], source |-> source,
      chunk_index |-> i - 1, _id |-> <<r, source, i>>] : i \in 1..Len(chunks)}

\* the chunk documents stored for (slug, source)
ChunksOf(slug, source) ==
    {d \in knowledge : d.company_slug = slug /\ d.source = source}

-----------------------------------------------------------------------------
(* run_pipeline: locals *)

IdleRun ==
    [pc |-> "idle", name |-> <<>>, url |-> <<>>, doc |-> <<>>,
     results |-> <<>>, web_data |-> <<>>, document_data |-> <<>>,
     agent_metrics |-> <<>>, temp_name |-> <<>>, slug |-> <<>>,
     analysis |-> Pending, rag |-> <<>>, stored |-> <<>>, ret |-> <<>>,
     cause |-> "", key |-> <<>>, upserts |-> 0, refresh |-> <<>>]

Active == {"stageA", "stageB", "snapshot", "metric", "format"}

\* variant: the roster is launched whether or not a name was given
agent_indices_always(name) == [i \in 1..Len(AGENT_MISSIONS) |-> <<2 + i, i>>]

\* agent_indices: (position in results, mission index), empty without a name
agent_indices(name) ==
    IF Truthy(name) THEN [i \in 1..Len(AGENT_MISSIONS) |-> <<2 + i, i>>] ELSE <<>>

\* variant: the loop stops at the first specialist that failed or came back empty
RECURSIVE MergeAgents_break(_, _, _)
MergeAgents_break(results, indices, acc) ==
    IF indices = <<>> THEN acc
    ELSE LET idx == Head(indices)[1]
             mission == AGENT_MISSIONS[Head(indices)[2]]
             agent_result == results[idx]
         IN  IF agent_result.tag = "exc" \/ ~Truthy(Value(agent_result))
             THEN acc
             ELSE MergeAgents_break(results, Tail(indices),
                    [text |-> acc.text \o Section(mission, Value(agent_result)),
                     metrics |-> Update(acc.metrics,
                                   [t \in {mission.topic} |-> Value(agent_result)])])

\* variant: the report of a specialist that came back empty is appended to the
\* findings text, and only non-empty results are stored in agent_metrics
RECURSIVE MergeAgents_report_empty(_, _, _)
MergeAgents_report_empty(results, indices, acc) ==
    IF indices = <<>> THEN acc
    ELSE LET idx == Head(indices)[1]
             mission == AGENT_MISSIONS[Head(indices)[2]]
             agent_result == results[idx]
         IN  IF agent_result.tag = "exc"
             THEN MergeAgents_report_empty(results, Tail(indices), acc)
             ELSE MergeAgents_report_empty(results, Tail(indices),
                    [text |-> acc.text \o Section(mission, Value(agent_result)),
                     metrics |-> IF Truthy(Value(agent_result))
                                 THEN Update(acc.metrics,
                                        [t \in {mission.topic} |-> Value(agent_result)])
                                 ELSE acc.metrics])

\* lines 242-265: the findings text and agent_metrics, in roster order
RECURSIVE MergeAgents(_, _, _)
MergeAgents(results, indices, acc) ==
    IF indices = <<>> THEN acc
    ELSE LET idx == Head(indices)[1]
             mission == AGENT_MISSIONS[Head(indices)[2]]
             agent_result == results[idx]
         IN  IF agent_result.tag = "exc" \/ ~Truthy(Value(agent_result))
             THEN MergeAgents(results, Tail(indices), acc)
             ELSE MergeAgents(results, Tail(indices),
                    [text |-> acc.text \o Section(mission, Value(agent_result)),
                     metrics |-> Update(acc.metrics,
                                   [t \in {mission.topic} |-> Value(agent_result)])])

\* variant: the wait is over as soon as the crawl and the document task settled
StageASettled_first(r) ==
    \A k \in DOMAIN runs[r].results : k <= 2 => runs[r].results[k] # Pending

\* asyncio.gather(*ingest_tasks) has returned: every task has settled
StageASettled(r) == \A k \in DOMAIN runs[r].results : runs[r].results[k] # Pending

\* variant: a failed document parse is kept as an error object, as a failed
\* crawl is
Merged_docexc(name, results) ==
    LET web0 == IF results[1].tag = "exc"
                THEN [raw |-> <<>>, error |-> "exc"]
                ELSE Value(results[1])
        document_data == IF results[2].tag = "exc" THEN [error |-> "exc"]
                        ELSE Value(results[2])
        m == MergeAgents(results, agent_indices(name), [text |-> <<>>, metrics |-> <<>>])
        web_data == Update(web0, [raw |-> Get(web0, "raw", <<>>) \o m.text,
                                  agent_metrics |-> m.metrics])
        temp0 == Or(name, Or(Get(web_data, "url", <<>>), Unknown))
        temp_name == IF Truthy(document_data) /\ ~Truthy(name) THEN UploadedDoc ELSE temp0
    IN  [web_data |-> web_data, document_data |-> document_data,
         agent_metrics |-> m.metrics, temp_name |-> temp_name,
         slug |-> make_slug(temp_name)]

\* lines 230-276: unpack, merge, derive the slug
Merged(name, results) ==
    LET web0 == IF results[1].tag = "exc"
                THEN [raw |-> <<>>, error |-> "exc"]
                ELSE Value(results[1])
        document_data == IF results[2].tag = "exc" THEN <<>> ELSE Value(results[2])
        m == MergeAgents(results, agent_indices(name), [text |-> <<>>, metrics |-> <<>>])
        web_data == Update(web0, [raw |-> Get(web0, "raw", <<>>) \o m.text,
                                  agent_metrics |-> m.metrics])
        temp0 == Or(name, Or(Get(web_data, "url", <<>>), Unknown))
        temp_name == IF Truthy(document_data) /\ ~Truthy(name) THEN UploadedDoc ELSE temp0
    IN  [web_data |-> web_data, document_data |-> document_data,
         agent_metrics |-> m.metrics, temp_name |-> temp_name,
         slug |-> make_slug(temp_name)]

\* an indexing task with its arguments; prior records the chunks stored for
\* its key when the task was created (history, read by no action)
RagTask(slug, text, source) ==
    [step |-> "queued", slug |-> slug, text |-> text, chunks |-> <<>>,
     prior |-> ChunksOf(slug, source)]

\* variant: the web indexing task is created whatever the corpus holds
RagTasks_always(m) ==
    LET web == [s \in {"web"} |-> RagTask(m.slug, Get(m.web_data, "raw", <<>>), "web")]
        doc == IF Truthy(m.document_data)
                  /\ Truthy(Get(m.document_data, "extracted_text", <<>>))
               THEN [s \in {"document"} |->
                          RagTask(m.slug, m.document_data.extracted_text, "document")]
               ELSE <<>>
    IN  Update(web, doc)

\* lines 292-304: which indexing tasks are created
RagTasks(m) ==
    LET web == IF Truthy(Get(m.web_data, "raw", <<>>))
               THEN [s \in {"web"} |-> RagTask(m.slug, m.web_data.raw, "web")]
               ELSE <<>>
        doc == IF Truthy(m.document_data)
                  /\ Truthy(Get(m.document_data, "extracted_text", <<>>))
               THEN [s \in {"document"} |->
                          RagTask(m.slug, m.document_data.extracted_text, "document")]
               ELSE <<>>
    IN  Update(web, doc)

\* variant: the wait is over as soon as the analysis settled
StageBSettled_analysis(r) == runs[r].analysis # Pending

\* asyncio.gather(*processing_tasks) has returned
StageBSettled(r) ==
    /\ runs[r].analysis # Pending
    /\ \A s \in DOMAIN runs[r].rag : runs[r].rag[s].step \in {"done", "failed"}

\* lines 310-317: the analysis the run goes on with
Unpacked(run) ==
    IF run.analysis.tag = "exc"
    THEN [name |-> run.temp_name, summary |-> "Analysis failed",
          metrics |-> [sentiment |-> "Neutral", signal_strength |-> 0]]
    ELSE run.analysis.val

\* lines 324-360: the profile handed to store_company
Profile(run, now) ==
    LET analysis == Unpacked(run)
        final_name == Or(Get(analysis, "name", <<>>), run.temp_name)
    IN  [name |-> final_name,
         slug |-> run.slug,
         description |-> Get(analysis, "summary", ""),
         website |-> Or(run.url, Or(Get(analysis, "website", <<>>),
                                    Get(run.web_data, "url", <<>>))),
         crawled_at |-> now,
         updated_at |-> now,
         watchlist |-> FALSE,
         web_data |-> [url |-> Get(run.web_data, "url", <<>>),
                       raw_length |-> Len(Get(run.web_data, "raw", <<>>))],
         document_data |->
            IF Truthy(run.document_data)
            THEN [has_document |-> TRUE,
                  text_length |-> Len(Get(run.document_data, "extracted_text", <<>>))]
            ELSE <<>>,
         analysis |-> analysis,
         agent_metrics |-> run.agent_metrics,
         monitoring |-> [active |-> FALSE, interval_hours |-> 24,
                         last_checked |-> now, next_check |-> None]]

\* lines 374-382: what goes to record_metric_history; "raise" when a stored
\* specialist result is not an object (.get on a list)
MetricsToStore(analysis, agent_metrics) ==
    LET hv == Get(agent_metrics, "hiring_velocity", <<>>)
        pm == Get(agent_metrics, "pricing_model", <<>>)
        m1 == IF Truthy(hv)
              THEN [hiring_status |-> Get(hv, "hiring_status", None),
                    open_roles |-> Get(hv, "open_roles_count", None)]
              ELSE <<>>
        m2 == IF Truthy(pm)
              THEN [has_free_tier |-> Get(pm, "has_free_tier", None)]
              ELSE <<>>
    IN  IF ~IsDict(hv) \/ ~IsDict(pm) THEN [raise |-> "AttributeError"]
        ELSE Update(Update(analysis.metrics, m1), m2)

\* format_pipeline_output(stored), then _raw and _meta; "raise" when a stored
\* specialist result is not an object (formatter.py calls .get on each)
Formatted(stored) ==
    LET am == Get(stored, "agent_metrics", <<>>)
    IN  IF \E t \in DOMAIN am : ~IsDict(am[t]) THEN [raise |-> "AttributeError"]
        ELSE [company |-> [id |-> stored._id, name |-> stored.name,
                           website |-> stored.website,
                           description |-> stored.description],
              raw_metrics |-> am,
              _raw |-> stored,
              _meta |-> [agents_completed |-> DOMAIN am]]

-----------------------------------------------------------------------------
(* Actions *)

Set(r, fields) == runs' = [runs EXCEPT ![r] = Update(runs[r], fields)]

\* the invocation is over: its locals are gone; what it was called with, what
\* it gave back and the record of what it wrote (rag, key, upserts) are kept,
\* and so is the slug a refresh was asked for
Finish(r, fields) ==
    LET run == runs[r]
        kept == [name |-> run.name, url |-> run.url, doc |-> run.doc,
                 slug |-> run.slug, rag |-> run.rag, key |-> run.key,
                 upserts |-> run.upserts, refresh |-> run.refresh]
    IN  runs' = [runs EXCEPT ![r] = Update(Update(IdleRun, kept), fields)]

\* lines 169-220: the ingestion tasks are created
Launched(name, url, doc) ==
    [pc |-> "stageA", name |-> name, url |-> url, doc |-> doc,
     results |-> <<Pending, Pending>>
                 \o [i \in 1..Len(agent_indices(name)) |-> Pending]]

Launch(r, name, url, doc) == Set(r, Launched(name, url, doc))

\* invocation r can begin: the scenario holds it, the invocations are taken in
\* order, and they overlap only where the scenario says so
CanStart(r) ==
    /\ r \in env.runs
    /\ runs[r].pc = "idle"
    /\ \A q \in Runs : q < r => runs[q].pc # "idle"
    /\ env.overlap \/ \A q \in Runs : runs[q].pc \notin Active

\* a caller (POST /analyze, the search job) invokes run_pipeline
StartRun(r) ==
    /\ CanStart(r)
    /\ \E in \in env.inputs : Launch(r, in.name, in.url, in.doc)
    /\ UNCHANGED <<store, env, beyond>>

\* refresh_company(slug): None when the slug is unknown, else a run on the
\* stored name and website; refresh records the slug asked for (history, read
\* by no action)
RefreshCompany(r) ==
    /\ CanStart(r)
    /\ \E slug \in {d.slug : d \in companies} \cup {make_slug(NameAc)} :
          IF get_company(companies, slug) = {}
          THEN Finish(r, [pc |-> "notfound"])
          ELSE \E existing \in get_company(companies, slug) :
                  Set(r, Update(Launched(Get(existing, "name", <<>>),
                                         Get(existing, "website", <<>>), <<>>),
                                [refresh |-> slug]))
    /\ UNCHANGED <<store, env, beyond>>

\* the crawl task (or its no-op) settles
SettleCrawl(r) ==
    LET run == runs[r]
    IN  /\ run.pc = "stageA"
        /\ run.results[1] = Pending
        /\ IF Truthy(run.url) \/ Truthy(run.name)
           THEN \E out \in env.crawl :
                   Set(r, [results |-> [run.results EXCEPT
                              ![1] = crawl_company(Or(run.url, run.name), out)]])
           ELSE Set(r, [results |-> [run.results EXCEPT ![1] = Ok([raw |-> <<>>])]])
        /\ UNCHANGED <<store, env, beyond>>

\* the document task (or its no-op) settles
SettleDocument(r) ==
    LET run == runs[r]
    IN  /\ run.pc = "stageA"
        /\ run.results[2] = Pending
        /\ IF Truthy(run.doc)
           THEN \E out \in env.document :
                   Set(r, [results |-> [run.results EXCEPT ![2] = parse_document(out)]])
           ELSE Set(r, [results |-> [run.results EXCEPT ![2] = Ok(<<>>)]])
        /\ UNCHANGED <<store, env, beyond>>

\* variant: the results are collected in completion order, each landing in the
\* first slot still free
SettleAgent_first_free(r, i) ==
    LET run == runs[r]
        free == {k \in DOMAIN run.results : k > 2 /\ run.results[k] = Pending}
    IN  /\ run.pc = "stageA"
        /\ 2 + i \in free
        /\ \E tag \in env.agent :
              LET k == CHOOSE x \in free : \A y \in free : x <= y
              IN  Set(r, [results |-> [run.results EXCEPT ![k] = agent_deep_dive(i, tag)]])
        /\ UNCHANGED <<store, env, beyond>>

\* the task of mission i settles
SettleAgent(r, i) ==
    LET run == runs[r]
    IN  /\ run.pc = "stageA"
        /\ 2 + i \in DOMAIN run.results
        /\ run.results[2 + i] = Pending
        /\ \E tag \in env.agent :
              Set(r, [results |-> [run.results EXCEPT ![2 + i] = agent_deep_dive(i, tag)]])
        /\ UNCHANGED <<store, env, beyond>>

\* lines 224-304: gather returns, the results are merged, Stage B is created
MergeAndProcess(r) ==
    LET run == runs[r]
        m == Merged(run.name, run.results)
    IN  /\ run.pc = "stageA"
        /\ StageASettled(r)
        /\ Set(r, Update(m, [pc |-> "stageB", analysis |-> Pending, rag |-> RagTasks(m)]))
        /\ UNCHANGED <<store, env, beyond>>

\* the analysis task settles
SettleAnalysis(r) ==
    LET run == runs[r]
    IN  /\ run.pc = "stageB"
        /\ run.analysis = Pending
        /\ \E c \in env.completion :
              Set(r, [analysis |->
                        IF c.tag = "taskexc" THEN Exc
                        ELSE Ok(analyze_company(run.name, run.url, c))])
        /\ UNCHANGED <<store, env, beyond>>

SetRag(r, src, fields) ==
    Set(r, [rag |-> [runs[r].rag EXCEPT ![src] = Update(runs[r].rag[src], fields)]])

\* rag.py 60-70: chunking
RagChunk(r, src) ==
    LET run == runs[r]
    IN  /\ run.pc = "stageB"
        /\ src \in DOMAIN run.rag
        /\ run.rag[src].step = "queued"
        /\ \E ok \in env.ok :
              LET chunks == chunk_text(run.rag[src].text, ChunkSize)
              IN  IF ~ok THEN SetRag(r, src, [step |-> "failed"])
                  ELSE IF chunks = <<>> THEN SetRag(r, src, [step |-> "done"])
                  ELSE SetRag(r, src, [step |-> "chunked", chunks |-> chunks])
        /\ UNCHANGED <<store, env, beyond>>

\* rag.py 73-84: embedding
RagEmbed(r, src) ==
    LET run == runs[r]
    IN  /\ run.pc = "stageB"
        /\ src \in DOMAIN run.rag
        /\ run.rag[src].step = "chunked"
        /\ \E ok \in env.ok :
              SetRag(r, src, [step |-> IF ok THEN "embedded" ELSE "failed"])
        /\ UNCHANGED <<store, env, beyond>>

\* rag.py 90: delete the old chunks of (slug, source)
RagDelete(r, src) ==
    LET run == runs[r]
    IN  /\ run.pc = "stageB"
        /\ src \in DOMAIN run.rag
        /\ run.rag[src].step = "embedded"
        /\ \E ok \in env.ok :
              /\ SetRag(r, src, [step |-> IF ok THEN "deleted" ELSE "failed"])
              /\ knowledge' = IF ok THEN delete_many(knowledge, run.rag[src].slug, src)
                              ELSE knowledge
        /\ UNCHANGED <<companies, snapshots, metrics_history, env, beyond>>

\* rag.py 91: insert the new chunks
RagInsert(r, src) ==
    LET run == runs[r]
        task == run.rag[src]
    IN  /\ run.pc = "stageB"
        /\ src \in DOMAIN run.rag
        /\ task.step = "deleted"
        /\ \E ok \in env.ok :
              /\ SetRag(r, src, [step |-> IF ok THEN "done" ELSE "failed"])
              /\ knowledge' = IF ok
                              THEN knowledge \cup KnowledgeDocs(task.slug, task.chunks, src, r)
                              ELSE knowledge
        /\ UNCHANGED <<companies, snapshots, metrics_history, env, beyond>>

\* variant: a failed upsert is swallowed and the run goes on to the snapshot
StoreCompany_swallow(r) ==
    LET run == runs[r]
        profile == Profile(run, r)
    IN  /\ run.pc = "stageB"
        /\ StageBSettled(r)
        /\ IF ~IsDict(Unpacked(run))
           THEN /\ Finish(r, [pc |-> "raised", cause |-> "analysis"])
                /\ UNCHANGED companies
           ELSE \E ok \in env.ok :
                   IF ok
                   THEN LET after == store_company(companies, profile, r, r)
                        IN  /\ companies' = after
                            /\ Set(r, [pc |-> "snapshot", upserts |-> run.upserts + 1,
                                       key |-> StoreSlug(profile),
                                       stored |-> CHOOSE d \in after :
                                                     d.slug = StoreSlug(profile)])
                   ELSE /\ Set(r, [pc |-> "snapshot", key |-> StoreSlug(profile),
                                   stored |-> profile])
                        /\ UNCHANGED companies
        /\ UNCHANGED <<snapshots, metrics_history, knowledge, env, beyond>>

\* lines 307-364: gather returns, the profile is built and upserted
StoreCompany(r) ==
    LET run == runs[r]
        profile == Profile(run, r)
    IN  /\ run.pc = "stageB"
        /\ StageBSettled(r)
        /\ IF ~IsDict(Unpacked(run))
           THEN /\ Finish(r, [pc |-> "raised", cause |-> "analysis"])
                /\ UNCHANGED companies
           ELSE \E ok \in env.ok :
                   IF ok
                   THEN LET after == store_company(companies, profile, r, r)
                        IN  /\ companies' = after
                            /\ Set(r, [pc |-> "snapshot", upserts |-> run.upserts + 1,
                                       key |-> StoreSlug(profile),
                                       stored |-> CHOOSE d \in after :
                                                     d.slug = StoreSlug(profile)])
                   ELSE /\ Finish(r, [pc |-> "raised", cause |-> "storage"])
                        /\ UNCHANGED companies
        /\ UNCHANGED <<snapshots, metrics_history, knowledge, env, beyond>>

\* variant: a failed snapshot insert is swallowed and the run goes on
StoreSnapshot_swallow(r) ==
    LET run == runs[r]
    IN  /\ run.pc = "snapshot"
        /\ \E ok \in env.ok :
              /\ snapshots' = IF ok
                               THEN store_snapshot(snapshots, run.slug,
                                       [analysis |-> Unpacked(run),
                                        agent_metrics |-> run.agent_metrics,
                                        timestamp |-> r], r)
                               ELSE snapshots
              /\ Set(r, [pc |-> "metric"])
        /\ UNCHANGED <<companies, metrics_history, knowledge, env, beyond>>

\* lines 367-371
StoreSnapshot(r) ==
    LET run == runs[r]
    IN  /\ run.pc = "snapshot"
        /\ \E ok \in env.ok :
              IF ok
              THEN /\ snapshots' = store_snapshot(snapshots, run.slug,
                                      [analysis |-> Unpacked(run),
                                       agent_metrics |-> run.agent_metrics,
                                       timestamp |-> r], r)
                   /\ Set(r, [pc |-> "metric"])
              ELSE /\ Finish(r, [pc |-> "raised", cause |-> "storage"])
                   /\ UNCHANGED snapshots
        /\ UNCHANGED <<companies, metrics_history, knowledge, env, beyond>>

\* lines 374-382
RecordMetrics(r) ==
    LET run == runs[r]
        analysis == Unpacked(run)
    IN  /\ run.pc = "metric"
        /\ IF ~Truthy(Get(analysis, "metrics", <<>>))
           THEN /\ Set(r, [pc |-> "format"])
                /\ UNCHANGED metrics_history
           ELSE LET m == MetricsToStore(analysis, run.agent_metrics)
                IN  IF "raise" \in DOMAIN m
                    THEN /\ Finish(r, [pc |-> "raised", cause |-> "agent"])
                         /\ UNCHANGED metrics_history
                    ELSE \E ok \in env.ok :
                            IF ok
                            THEN /\ metrics_history' =
                                       record_metric_history(metrics_history, run.slug, m, r)
                                 /\ Set(r, [pc |-> "format"])
                            ELSE /\ Finish(r, [pc |-> "raised", cause |-> "storage"])
                                 /\ UNCHANGED metrics_history
        /\ UNCHANGED <<companies, snapshots, knowledge, env, beyond>>

\* lines 384-395: format and return
Return(r) ==
    LET run == runs[r]
        formatted == Formatted(run.stored)
    IN  /\ run.pc = "format"
        /\ IF "raise" \in DOMAIN formatted
           THEN Finish(r, [pc |-> "raised", cause |-> "agent"])
           ELSE Finish(r, [pc |-> "done", ret |-> formatted])
        /\ UNCHANGED <<store, env, beyond>>

\* the caller goes away while the run waits at one of its two gathers
Cancel(r) ==
    /\ env.cancel
    /\ runs[r].pc \in {"stageA", "stageB"}
    /\ Finish(r, [pc |-> "cancelled"])
    /\ UNCHANGED <<store, env, beyond>>

\* POST /watchlist
ToggleWatchlist ==
    /\ \E slug \in env.toggle, enabled \in BOOLEAN :
          companies' = toggle_watchlist(companies, slug, enabled)
    /\ UNCHANGED <<snapshots, metrics_history, knowledge, runs, env, beyond>>

\* one step of invocation r
RunStep(r) ==
    \/ StartRun(r)
    \/ SettleCrawl(r)
    \/ SettleDocument(r)
    \/ \E i \in 1..Len(AGENT_MISSIONS) : SettleAgent(r, i)
    \/ MergeAndProcess(r)
    \/ SettleAnalysis(r)
    \/ \E src \in {"web", "document"} : RagChunk(r, src)
    \/ \E src \in {"web", "document"} : RagEmbed(r, src)
    \/ \E src \in {"web", "document"} : RagDelete(r, src)
    \/ \E src \in {"web", "document"} : RagInsert(r, src)
    \/ StoreCompany(r)
    \/ StoreSnapshot(r)
    \/ RecordMetrics(r)
    \/ Return(r)
    \/ Cancel(r)

NextOne == \E r \in Runs : RunStep(r)

Next ==
    \/ \E r \in Runs : RunStep(r)
    \/ \E r \in Runs : RefreshCompany(r)
    \/ ToggleWatchlist

-----------------------------------------------------------------------------
(* The components beyond the pipeline, at rest *)

\* no call of agent_deep_dive is under way
IdleCall == [pc |-> "idle", attempt |-> 0, polls |-> <<>>, result |-> <<>>, why |-> ""]

\* _jobs = {}
NoJobs == <<>>

\* no function is being called
NoCall == [fn |-> "none"]

\* NewsMonitor.__init__
NewMonitor ==
    [running |-> FALSE, latest_news |-> <<>>, subscribers |-> <<>>, task |-> "none",
     broadcasts |-> <<>>]

\* no stream_news generator exists
NoStreams == <<>>

AtRest ==
    /\ agent_call = IdleCall
    /\ jobs = NoJobs
    /\ call = NoCall
    /\ news_monitor = NewMonitor
    /\ streams = NoStreams

-----------------------------------------------------------------------------
(* Scenarios *)

Input(name, url, doc) == [name |-> name, url |-> url, doc |-> doc]

InitStore ==
    /\ companies = {}
    /\ snapshots = <<>>
    /\ metrics_history = <<>>
    /\ knowledge = {}
    /\ runs = [r \in Runs |-> IdleRun]
    /\ AtRest

\* one invocation after the other, every kind of input and answer
EnvOne ==
    [inputs |-> {Input(n, u, <<>>) : n \in {<<>>, NameAc, NameBang}, u \in {<<>>, UrlX}}
                \cup {Input(<<>>, <<>>, DocRef), Input(<<>>, UrlX, DocRef),
                      Input(NameAc, <<>>, DocRef)},
     crawl |-> {[tag |-> "exc", page |-> <<>>], [tag |-> "notfound", page |-> <<>>],
                [tag |-> "ok", page |-> PageShort]},
     document |-> {[tag |-> "exc", text |-> <<>>], [tag |-> "ok", text |-> <<>>],
                   [tag |-> "ok", text |-> DocText]},
     agent |-> {"exc", "empty", "dict", "list"},
     completion |-> {[tag |-> "error", val |-> <<>>], [tag |-> "taskexc", val |-> <<>>],
                     [tag |-> "json", val |-> ObjFull], [tag |-> "json", val |-> ObjBare],
                     [tag |-> "json", val |-> JsonList]},
     ok |-> BOOLEAN, cancel |-> TRUE, overlap |-> FALSE, runs |-> {1},
     toggle |-> {make_slug(NameAc)}]

InitOne == InitStore /\ env = EnvOne

SpecOne == InitOne /\ [][NextOne]_vars

\* two invocations, one after the other, with refreshes and watchlist toggles
EnvSeq ==
    [inputs |-> {Input(NameAc, <<>>, <<>>), Input(<<>>, UrlX, <<>>)},
     crawl |-> {[tag |-> "exc", page |-> <<>>], [tag |-> "ok", page |-> PageShort],
                [tag |-> "ok", page |-> PageLong]},
     document |-> {[tag |-> "exc", text |-> <<>>]},
     agent |-> {"exc"},
     completion |-> {[tag |-> "error", val |-> <<>>], [tag |-> "json", val |-> ObjFull],
                     [tag |-> "json", val |-> ObjBare]},
     ok |-> BOOLEAN, cancel |-> TRUE, overlap |-> FALSE, runs |-> Runs,
     toggle |-> {make_slug(NameAc), make_slug(NameAcme)}]

Init == InitStore /\ env = EnvSeq

Spec == Init /\ [][Next]_vars

\* two invocations that may overlap, as two callers of the same process make them
EnvRace ==
    [inputs |-> {Input(<<>>, UrlX, <<>>)},
     crawl |-> {[tag |-> "ok", page |-> PageShort], [tag |-> "ok", page |-> PageLong]},
     document |-> {[tag |-> "exc", text |-> <<>>]},
     agent |-> {"exc"},
     completion |-> {[tag |-> "error", val |-> <<>>], [tag |-> "json", val |-> ObjFull]},
     ok |-> BOOLEAN, cancel |-> TRUE, overlap |-> TRUE, runs |-> Runs,
     toggle |-> {make_slug(UrlX)}]

InitRace == InitStore /\ env = EnvRace

SpecRace == InitRace /\ [][Next]_vars

\* two invocations, one after the other, with deterministic collaborators: each
\* of them answers every call the same way, and the stores accept every write
EnvTwice(crawl, doc, agent, completion) ==
    [inputs |-> {Input(NameAc, <<>>, <<>>), Input(<<>>, UrlX, DocRef)},
     crawl |-> {crawl}, document |-> {doc}, agent |-> {agent},
     completion |-> {completion},
     ok |-> {TRUE}, cancel |-> TRUE, overlap |-> FALSE, runs |-> Runs,
     toggle |-> {make_slug(NameAc)}]

InitTwice ==
    /\ InitStore
    /\ env \in {EnvTwice(c, d, a, s) :
                  c \in {[tag |-> "exc", page |-> <<>>], [tag |-> "ok", page |-> PageLong]},
                  d \in {[tag |-> "exc", text |-> <<>>], [tag |-> "ok", text |-> DocText]},
                  a \in {"exc", "dict"},
                  s \in {[tag |-> "error", val |-> <<>>], [tag |-> "json", val |-> ObjFull]}}

SpecTwice == InitTwice /\ [][Next]_vars

\* two invocations on the same url and document, one after the other, where
\* either source may come back empty or fail; the stores accept every write
EnvSources ==
    [inputs |-> {Input(<<>>, UrlX, DocRef)},
     crawl |-> {[tag |-> "exc", page |-> <<>>], [tag |-> "ok", page |-> PageLong]},
     document |-> {[tag |-> "exc", text |-> <<>>], [tag |-> "ok", text |-> <<>>],
                   [tag |-> "ok", text |-> DocText]},
     agent |-> {"exc"},
     completion |-> {[tag |-> "json", val |-> ObjBare]},
     ok |-> {TRUE}, cancel |-> TRUE, overlap |-> FALSE, runs |-> Runs,
     toggle |-> {make_slug(UploadedDoc)}]

InitSources == InitStore /\ env = EnvSources

SpecSources == InitSources /\ [][Next]_vars

-----------------------------------------------------------------------------
(* firecrawl.py: agent_deep_dive and _poll_agent_job *)

Completed == <<"c", "o", "m", "p", "l", "e", "t", "e", "d">>
Failed == <<"f", "a", "i", "l", "e", "d">>
FailedUpper == <<"F", "A", "I", "L", "E", "D">>
ErrorStatus == <<"e", "r", "r", "o", "r">>
Processing == <<"p", "r", "o", "c", "e", "s", "s", "i", "n", "g">>

JobId == <<"j", "1">>

\* str.lower()
StrLower(s) == [i \in 1..Len(s) |-> Lower(s[i])]

\* a response body that is no JSON: res.json() raises
NotJson == [nonjson |-> "html"]

IsJson(v) == "nonjson" \notin DOMAIN v

\* what the provider may answer to the POST that starts the agent
StartResponses ==
    {[kind |-> "timeout"], [kind |-> "exception"]}
    \cup {[kind |-> "http", code |-> 500, body |-> <<>>]}
    \cup {[kind |-> "http", code |-> 200, body |-> b] :
            b \in {NotJson, JsonList,
                   [success |-> TRUE, id |-> JobId],
                   [success |-> TRUE, id |-> JobId, data |-> AgentDict(1)],
                   [success |-> TRUE, data |-> AgentDict(1)],
                   [success |-> TRUE, data |-> <<>>],
                   [success |-> TRUE, data |-> JsonList],
                   [success |-> FALSE, result |-> AgentDict(1)],
                   [output |-> AgentDict(1)],
                   [success |-> FALSE]}}

\* what the provider may answer to a GET on the job
PollResponses ==
    {[kind |-> "exception"]}
    \cup {[kind |-> "http", code |-> 502, body |-> <<>>]}
    \cup {[kind |-> "http", code |-> 200, body |-> b] :
            b \in {NotJson, JsonList,
                   [status |-> Processing],
                   [success |-> TRUE],
                   [status |-> Completed, data |-> AgentDict(1)],
                   [status |-> Completed, data |-> <<>>, result |-> JsonList],
                   [status |-> Completed],
                   [status |-> Failed, error |-> "e"],
                   [status |-> FailedUpper],
                   [status |-> ErrorStatus, data |-> AgentDict(1)]}}

\* lines 61-106: what agent_deep_dive does with the answer to its POST: it
\* returns val, or goes on to poll the job
StartOutcome(resp) ==
    LET Returns(v, why) == [to |-> "return", val |-> v, why |-> why]
        b == resp.body
    IN  CASE resp.kind = "timeout" -> Returns(<<>>, "timeout")
          [] resp.kind = "exception" -> Returns(<<>>, "exception")
          [] resp.code # 200 -> Returns(<<>>, "non200")
          [] ~IsJson(b) \/ ~IsDict(b) -> Returns(<<>>, "exception")
          [] Get(b, "success", FALSE) = TRUE /\ Truthy(Get(b, "id", <<>>))
                /\ "data" \notin DOMAIN b -> [to |-> "poll", val |-> <<>>, why |-> ""]
          [] Get(b, "success", FALSE) = TRUE /\ "data" \in DOMAIN b -> Returns(b.data, "data")
          [] "result" \in DOMAIN b -> Returns(b.result, "data")
          [] "output" \in DOMAIN b -> Returns(b.output, "data")
          [] OTHER -> Returns(<<>>, "format")

\* lines 125-153: one pass of the polling loop: it returns val, or sleeps and
\* goes to the next attempt; said is what the poll reported
PollOutcome(resp) ==
    LET b == resp.body
        status == StrLower(Get(b, "status", <<>>))
    IN  CASE resp.kind = "exception" -> [to |-> "next", said |-> "exception", val |-> <<>>]
          [] resp.code # 200 -> [to |-> "next", said |-> "non200", val |-> <<>>]
          [] ~IsJson(b) \/ ~IsDict(b) -> [to |-> "next", said |-> "exception", val |-> <<>>]
          [] status = Completed ->
                [to |-> "return", said |-> "completed",
                 val |-> Or(Get(b, "data", <<>>),
                            Or(Get(b, "result", <<>>), Get(b, "output", <<>>)))]
          [] status \in {Failed, ErrorStatus} ->
                [to |-> "return", said |-> "failed", val |-> <<>>]
          [] OTHER -> [to |-> "next", said |-> "processing", val |-> <<>>]

\* the orchestrator's task calls agent_deep_dive
DeepDiveCall ==
    /\ agent_call.pc = "idle"
    /\ agent_call' = [agent_call EXCEPT !.pc = "post"]
    /\ UNCHANGED <<pipeline, jobs, call, news>>

\* variant: only the timeout is caught, any other exception leaves the call
DeepDivePost_uncaught ==
    /\ agent_call.pc = "post"
    /\ \E resp \in StartResponses :
          LET o == StartOutcome(resp)
          IN  agent_call' =
                 IF o.to = "poll"
                 THEN [agent_call EXCEPT !.pc = "poll", !.why = "job"]
                 ELSE IF o.why = "exception"
                 THEN [agent_call EXCEPT !.pc = "raised", !.why = o.why]
                 ELSE [agent_call EXCEPT !.pc = "returned", !.result = o.val,
                                         !.why = o.why]
    /\ UNCHANGED <<pipeline, jobs, call, news>>

\* the POST settles
DeepDivePost ==
    /\ agent_call.pc = "post"
    /\ \E resp \in StartResponses :
          LET o == StartOutcome(resp)
          IN  agent_call' =
                 IF o.to = "poll"
                 THEN [agent_call EXCEPT !.pc = "poll", !.why = "job"]
                 ELSE [agent_call EXCEPT !.pc = "returned", !.result = o.val,
                                         !.why = o.why]
    /\ UNCHANGED <<pipeline, jobs, call, news>>

\* variant: a job reported failed is polled again like one still processing
PollAgentJob_retry_failed ==
    /\ agent_call.pc = "poll"
    /\ agent_call.attempt < MaxPolls
    /\ \E resp \in PollResponses :
          LET o == PollOutcome(resp)
              polls == Append(agent_call.polls, o.said)
          IN  agent_call' =
                 IF o.to = "return" /\ o.said # "failed"
                 THEN [agent_call EXCEPT !.pc = "returned", !.result = o.val,
                                         !.polls = polls, !.why = o.said]
                 ELSE [agent_call EXCEPT !.attempt = @ + 1, !.polls = polls]
    /\ UNCHANGED <<pipeline, jobs, call, news>>

\* one pass of the loop of _poll_agent_job: the GET settles
PollAgentJob ==
    /\ agent_call.pc = "poll"
    /\ agent_call.attempt < MaxPolls
    /\ \E resp \in PollResponses :
          LET o == PollOutcome(resp)
              polls == Append(agent_call.polls, o.said)
          IN  agent_call' =
                 IF o.to = "return"
                 THEN [agent_call EXCEPT !.pc = "returned", !.result = o.val,
                                         !.polls = polls, !.why = o.said]
                 ELSE [agent_call EXCEPT !.attempt = @ + 1, !.polls = polls]
    /\ UNCHANGED <<pipeline, jobs, call, news>>

\* lines 154-155: the loop is over, the job never settled
PollsExhausted ==
    /\ agent_call.pc = "poll"
    /\ agent_call.attempt >= MaxPolls
    /\ agent_call' = [agent_call EXCEPT !.pc = "returned", !.result = <<>>,
                                        !.why = "exhausted"]
    /\ UNCHANGED <<pipeline, jobs, call, news>>

NextAgent ==
    \/ DeepDiveCall
    \/ DeepDivePost
    \/ PollAgentJob
    \/ PollsExhausted

InitAgent == InitStore /\ env = <<>>

SpecAgent == InitAgent /\ [][NextAgent]_vars

\* the event loop goes on running the call: every request settles (the client
\* has a timeout) and every sleep ends
SpecAgentLive == SpecAgent /\ WF_vars(NextAgent)

-----------------------------------------------------------------------------
(* routes.py: search jobs *)

\* _serialize: ObjectId to its string, datetimes to their isoformat
Serialize(result) ==
    LET raw == result._raw
        Iso(t) == [isoformat |-> t]
    IN  [result EXCEPT
           !._raw = Update(raw,
                      [_id |-> [str |-> raw._id],
                       crawled_at |-> Iso(raw.crawled_at),
                       updated_at |-> Iso(raw.updated_at),
                       monitoring |-> Update(raw.monitoring,
                                        [last_checked |-> Iso(raw.monitoring.last_checked)])])]

\* lines 124-133: a new job; task is the position of its background task
\* (scheduled, running, settled), which the dict does not hold
NewJob(query) ==
    [status |-> "pending", isComplete |-> FALSE, query |-> query,
     results |-> <<>>, error |-> <<>>, task |-> "scheduled"]

\* POST /search: job j is created and its background task scheduled
create_search(j) ==
    /\ j \in Runs
    /\ j \notin DOMAIN jobs
    /\ \A q \in Runs : q < j => q \in DOMAIN jobs
    /\ \E query \in env.queries :
          jobs' = [k \in DOMAIN jobs \cup {j} |->
                      IF k = j THEN NewJob(query) ELSE jobs[k]]
    /\ UNCHANGED <<pipeline, agent_call, call, news>>

\* lines 143-147: the background task starts: processing, then
\* run_pipeline(name=query) as invocation j
RunSearchJob(j) ==
    /\ j \in DOMAIN jobs
    /\ jobs[j].task = "scheduled"
    /\ CanStart(j)
    /\ jobs' = [jobs EXCEPT ![j] = Update(jobs[j], [status |-> "processing",
                                                     task |-> "running"])]
    /\ Launch(j, jobs[j].query, <<>>, <<>>)
    /\ UNCHANGED <<store, env, agent_call, call, news>>

\* variant: a failed job is not marked complete
SearchJobSettles_unmarked(j) ==
    /\ j \in DOMAIN jobs
    /\ jobs[j].task = "running"
    /\ runs[j].pc \in {"done", "raised", "cancelled"}
    /\ jobs' = [jobs EXCEPT ![j] =
                 CASE runs[j].pc = "done" ->
                        Update(jobs[j], [results |-> Serialize(runs[j].ret),
                                         status |-> "completed", isComplete |-> TRUE,
                                         task |-> "settled"])
                   [] runs[j].pc = "raised" ->
                        Update(jobs[j], [status |-> "failed", error |-> runs[j].cause,
                                         task |-> "settled"])
                   [] OTHER -> Update(jobs[j], [task |-> "settled"])]
    /\ UNCHANGED <<pipeline, agent_call, call, news>>

\* lines 148-162: the awaited run is over: its result is recorded, or the
\* exception it raised; a cancellation is no Exception and passes the handler
SearchJobSettles(j) ==
    /\ j \in DOMAIN jobs
    /\ jobs[j].task = "running"
    /\ runs[j].pc \in {"done", "raised", "cancelled"}
    /\ jobs' = [jobs EXCEPT ![j] =
                 CASE runs[j].pc = "done" ->
                        Update(jobs[j], [results |-> Serialize(runs[j].ret),
                                         status |-> "completed", isComplete |-> TRUE,
                                         task |-> "settled"])
                   [] runs[j].pc = "raised" ->
                        Update(jobs[j], [status |-> "failed", error |-> runs[j].cause,
                                         isComplete |-> TRUE, task |-> "settled"])
                   [] OTHER -> Update(jobs[j], [task |-> "settled"])]
    /\ UNCHANGED <<pipeline, agent_call, call, news>>

\* one step of invocation r once it was called
Awaited(r) ==
    \/ SettleCrawl(r)
    \/ SettleDocument(r)
    \/ \E i \in 1..Len(AGENT_MISSIONS) : SettleAgent(r, i)
    \/ MergeAndProcess(r)
    \/ SettleAnalysis(r)
    \/ \E src \in {"web", "document"} : RagChunk(r, src)
    \/ \E src \in {"web", "document"} : RagEmbed(r, src)
    \/ \E src \in {"web", "document"} : RagDelete(r, src)
    \/ \E src \in {"web", "document"} : RagInsert(r, src)
    \/ StoreCompany(r)
    \/ StoreSnapshot(r)
    \/ RecordMetrics(r)
    \/ Return(r)
    \/ Cancel(r)

NextJobs ==
    \/ \E j \in Runs : create_search(j)
    \/ \E j \in Runs : RunSearchJob(j)
    \/ \E j \in Runs : SearchJobSettles(j)
    \/ \E r \in Runs : Awaited(r)

\* two search jobs, one after the other
EnvJobs ==
    [queries |-> {NameAc},
     inputs |-> {},
     crawl |-> {[tag |-> "ok", page |-> PageShort]},
     document |-> {[tag |-> "exc", text |-> <<>>]},
     agent |-> {"exc"},
     completion |-> {[tag |-> "error", val |-> <<>>], [tag |-> "json", val |-> ObjFull]},
     ok |-> BOOLEAN, cancel |-> TRUE, overlap |-> FALSE, runs |-> Runs,
     toggle |-> {}]

InitJobs == InitStore /\ env = EnvJobs

SpecJobs == InitJobs /\ [][NextJobs]_vars

-----------------------------------------------------------------------------
(* rag.py: chunk_text, called on its own *)

\* a paragraph of n letters
Fill(n) == [i \in 1..n |-> "x"]

\* "\n\n".join(ps)
RECURSIVE Join(_)
Join(ps) ==
    IF ps = <<>> THEN <<>>
    ELSE IF Len(ps) = 1 THEN ps[1]
    ELSE ps[1] \o Sep \o Join(Tail(ps))

\* paragraphs: empty, blank, short, one that fills a chunk begun with three
\* letters to the budget exactly, one of the budget, one beyond it, and two
\* with white space of their own
Paras ==
    {<<>>, <<" ">>, <<"a">>, Fill(3), Fill(ChunkSize - 5), Fill(ChunkSize - 4),
     Fill(ChunkSize), Fill(ChunkSize + 2), <<" ", "e">>, <<"f", "\n", "g", "\n">>}

\* the texts chunk_text is called on
Texts == {Join(ps) : ps \in UNION {[1..n -> Paras] : n \in 0..MaxParas}}

\* a caller hands chunk_text a text
ChunkTextCall ==
    /\ call = NoCall
    /\ \E text \in Texts :
          call' = [fn |-> "chunk_text", text |-> text,
                   chunks |-> chunk_text(text, ChunkSize)]
    /\ UNCHANGED <<pipeline, agent_call, jobs, news>>

NextChunk == ChunkTextCall

InitChunk == InitStore /\ env = <<>>

SpecChunk == InitChunk /\ [][NextChunk]_vars

-----------------------------------------------------------------------------
(* openrouter.py: calculate_vector_scores *)

ScoreKeys ==
    {"hiring_velocity", "product_signals", "external_attention",
     "funding_activity", "market_momentum"}

\* a JSON value a score may come as: its type, and under the name of the type
\* its content: "int" with the integer, "float" with <<num, den>> for
\* num / den, "str" with the characters, "bool" with the boolean, and "inf"
\* (Infinity), "null", "list" with nothing
JsonValue(t, v) == [k \in {"t", t} |-> IF k = "t" THEN t ELSE v]

RECURSIVE Decimal(_, _)
Decimal(s, acc) ==
    LET c == Head(s)
        digit == CASE c = "0" -> 0 [] c = "1" -> 1 [] c = "2" -> 2 [] c = "3" -> 3
                   [] c = "4" -> 4 [] c = "5" -> 5 [] c = "6" -> 6 [] c = "7" -> 7
                   [] c = "8" -> 8 [] OTHER -> 9
    IN  IF s = <<>> THEN acc ELSE Decimal(Tail(s), 10 * acc + digit)

\* int(x): the integer, or "raise"
PyInt(x) ==
    CASE x.t = "int" -> [v |-> x["int"]]
      [] x.t = "bool" -> [v |-> IF x["bool"] THEN 1 ELSE 0]
      [] x.t = "float" ->
            LET num == x["float"][1]
                den == x["float"][2]
            IN  [v |-> IF num >= 0 THEN num \div den ELSE -((-num) \div den)]
      [] x.t = "str" ->
            LET s == Strip(x["str"], Whitespace)
            IN  IF s # <<>> /\ \A i \in 1..Len(s) : s[i] \in Digits
                THEN [v |-> Decimal(s, 0)]
                ELSE [raise |-> "ValueError"]
      [] x.t = "inf" -> [raise |-> "OverflowError"]
      [] OTHER -> [raise |-> "TypeError"]

\* variant: only the lower end is clamped
Clamp_floor(n) == IF n < 0 THEN 0 ELSE n

\* max(0, min(100, n))
Clamp(n) == IF n < 0 THEN 0 ELSE IF n > 100 THEN 100 ELSE n

\* lines 238-249: what the except branch returns
ScoresFallback(name) ==
    [company |-> name,
     hiring_velocity |-> JsonValue("int", 50), product_signals |-> JsonValue("int", 50),
     external_attention |-> JsonValue("int", 50), funding_activity |-> JsonValue("int", 50),
     market_momentum |-> JsonValue("int", 50),
     reasoning |-> [error |-> "e"], error |-> "e"]

\* lines 219-249, on the answer of the completion call
calculate_vector_scores(name, completion) ==
    IF completion.tag # "json" THEN ScoresFallback(name)
    ELSE LET result == completion.val
         IN  IF ~IsJson(result) \/ ~IsDict(result) THEN ScoresFallback(name)
             ELSE IF \E key \in ScoreKeys \cap DOMAIN result :
                        "raise" \in DOMAIN PyInt(result[key])
             THEN ScoresFallback(name)
             ELSE [key \in DOMAIN result \cup {"company"} |->
                      IF key = "company" THEN name
                      ELSE IF key \in ScoreKeys
                      THEN JsonValue("int", Clamp(PyInt(result[key]).v))
                      ELSE result[key]]

\* the values the completion may put under a score
ScoreValues ==
    {JsonValue("int", -5), JsonValue("int", 0), JsonValue("int", 37), JsonValue("int", 100), JsonValue("int", 150),
     JsonValue("float", <<759, 10>>), JsonValue("float", <<-5, 10>>), JsonValue("float", <<1005, 10>>), JsonValue("inf", <<>>),
     JsonValue("str", <<"8", "0">>), JsonValue("str", <<" ", "2", "5", "0">>), JsonValue("str", <<"h", "i">>),
     JsonValue("bool", TRUE), JsonValue("null", <<>>), JsonValue("list", <<>>)}

\* the answers of the completion call: it raises, the content is no JSON, the
\* JSON is no object, or an object with some of the scores
ScoreCompletions ==
    {[tag |-> "raise", val |-> <<>>], [tag |-> "json", val |-> NotJson],
     [tag |-> "json", val |-> JsonList], [tag |-> "json", val |-> <<>>]}
    \cup {[tag |-> "json",
           val |-> [hiring_velocity |-> a, market_momentum |-> b,
                    reasoning |-> [hiring_velocity |-> "why"]]] :
             a \in ScoreValues, b \in ScoreValues}
    \cup {[tag |-> "json",
           val |-> [hiring_velocity |-> a, product_signals |-> JsonValue("int", 60),
                    external_attention |-> JsonValue("int", 70), funding_activity |-> JsonValue("int", 80),
                    market_momentum |-> JsonValue("int", 90)]] : a \in ScoreValues}

\* GET /company/{slug}/vectors reaches calculate_vector_scores
VectorScoresCall ==
    /\ call = NoCall
    /\ \E completion \in ScoreCompletions :
          call' = [fn |-> "calculate_vector_scores", completion |-> completion,
                   result |-> calculate_vector_scores(NameAc, completion)]
    /\ UNCHANGED <<pipeline, agent_call, jobs, news>>

NextScores == VectorScoresCall

InitScores == InitStore /\ env = <<>>

SpecScores == InitScores /\ [][NextScores]_vars

-----------------------------------------------------------------------------
(* news_monitor.py: NewsMonitor and stream_news *)

StreamIds == {1, 2}     \* the stream_news generators; each owns one queue
MaxItems == 3           \* news items created in one behaviour
MaxKeepalive == 1       \* keepalives one stream sends
KeepLatest == 50        \* line 153
ReplayLast == 5         \* line 215

\* s[-n:]
LastOf(s, n) == IF Len(s) > n THEN SubSeq(s, Len(s) - n + 1, Len(s)) ELSE s

Elements(s) == {s[i] : i \in DOMAIN s}

\* lines 101-105: the new queue, q, is appended
subscribe(subscribers, q) == Append(subscribers, q)

\* variant: the queue stays in the list
unsubscribe_keep(subscribers, q) == subscribers

\* lines 107-110
unsubscribe(subscribers, q) ==
    IF q \in Elements(subscribers)
    THEN LET first == CHOOSE i \in DOMAIN subscribers :
                         /\ subscribers[i] = q
                         /\ \A j \in 1..(i - 1) : subscribers[j] # q
         IN  SubSeq(subscribers, 1, first - 1)
                \o SubSeq(subscribers, first + 1, Len(subscribers))
    ELSE subscribers

\* lines 112-115: the item is put on each queue of the list in turn; put on
\* an unbounded queue returns without suspending
RECURSIVE Broadcast(_, _, _)
Broadcast(st, subscribers, item) ==
    IF subscribers = <<>> THEN st
    ELSE Broadcast([st EXCEPT ![Head(subscribers)].queue = Append(@, item)],
                   Tail(subscribers), item)

\* answers of search_web: results with a title, with a long description
\* only, with neither
SearchResults ==
    LET Titled == [title |-> <<"T">>, description |-> <<>>]
        Described == [title |-> <<>>, description |-> Fill(21)]
        Bare == [title |-> <<>>, description |-> Fill(20)]
    IN  {<<>>, <<Titled>>, <<Bare, Described>>, <<Titled, Described>>}

\* lines 134-157: the results of one search, one after the other
RECURSIVE PollResults(_, _, _)
PollResults(mon, st, results) ==
    IF results = <<>> THEN [mon |-> mon, st |-> st]
    ELSE LET result == Head(results)
             title == result.title
             description == result.description
             \* lines 166-179, for a one-line text without markup
             line == Strip(description, Whitespace)
             extracted == IF Len(line) > 10 THEN line ELSE <<"N", "e", "w", "s">>
         IN  IF Truthy(title) \/ (Truthy(description) /\ Len(description) > 20)
             THEN LET item == [id |-> Len(mon.broadcasts) + 1,
                               headline |-> IF Truthy(title) THEN title
                                            ELSE extracted,
                               summary |-> description]
                      latest == Append(mon.latest_news, item)
                      mon2 == [mon EXCEPT
                                 !.latest_news = LastOf(latest, KeepLatest),
                                 !.broadcasts =
                                     Append(@, [item |-> item,
                                                to |-> Elements(mon.subscribers)])]
                  IN  PollResults(mon2, Broadcast(st, mon.subscribers, item),
                                  Tail(results))
             ELSE PollResults(mon, st, Tail(results))

\* lines 86-92, POST /news/start
StartMonitor ==
    /\ ~news_monitor.running
    /\ news_monitor' = [news_monitor EXCEPT !.running = TRUE, !.task = "alive"]
    /\ UNCHANGED <<pipeline, agent_call, jobs, call, streams>>

\* lines 94-99, POST /news/stop
StopMonitor ==
    /\ news_monitor.running
    /\ news_monitor' = [news_monitor EXCEPT
                          !.running = FALSE,
                          !.task = IF @ = "none" THEN @ ELSE "cancelled"]
    /\ UNCHANGED <<pipeline, agent_call, jobs, call, streams>>

\* lines 117-164: one turn of the poll loop, from the answer of search_web to
\* the sleep; a search that raises leaves everything as it was
PollLoop ==
    /\ news_monitor.running
    /\ news_monitor.task = "alive"
    /\ \E ok \in BOOLEAN, results \in SearchResults :
          /\ Len(news_monitor.broadcasts) + Len(results) <= MaxItems
          /\ LET after == IF ok THEN PollResults(news_monitor, streams, results)
                          ELSE [mon |-> news_monitor, st |-> streams]
             IN  /\ news_monitor' = after.mon
                 /\ streams' = after.st
    /\ UNCHANGED <<pipeline, agent_call, jobs, call>>

\* lines 201-215: the monitor is started when it is not running, the queue is
\* subscribed and the last items are taken for the replay
StreamOpen(s) ==
    /\ s \notin DOMAIN streams
    /\ news_monitor' =
          [news_monitor EXCEPT
             !.running = TRUE,
             !.task = IF news_monitor.running THEN @ ELSE "alive",
             !.subscribers = subscribe(@, s)]
    /\ streams' = [q \in DOMAIN streams \cup {s} |->
                     IF q = s
                     THEN [pc |-> "replay",
                           replay |-> LastOf(news_monitor.latest_news, ReplayLast),
                           queue |-> <<>>, got |-> <<>>, keepalives |-> 0]
                     ELSE streams[q]]
    /\ UNCHANGED <<pipeline, agent_call, jobs, call>>

\* lines 215-216: the next item of the replay is yielded
StreamReplay(s) ==
    /\ s \in DOMAIN streams
    /\ streams[s].pc = "replay"
    /\ streams' = [streams EXCEPT
                     ![s] = IF streams[s].replay = <<>>
                            THEN [@ EXCEPT !.pc = "waiting"]
                            ELSE [@ EXCEPT !.replay = Tail(@)]]
    /\ UNCHANGED <<pipeline, agent_call, jobs, call, news_monitor>>

\* lines 221-222: an item is taken off the queue and yielded
StreamGet(s) ==
    /\ s \in DOMAIN streams
    /\ streams[s].pc = "waiting"
    /\ streams[s].queue # <<>>
    /\ streams' = [streams EXCEPT ![s].queue = Tail(@),
                                  ![s].got = Append(@, Head(streams[s].queue))]
    /\ UNCHANGED <<pipeline, agent_call, jobs, call, news_monitor>>

\* lines 223-225: nothing came for a minute
StreamKeepalive(s) ==
    /\ s \in DOMAIN streams
    /\ streams[s].pc = "waiting"
    /\ streams[s].queue = <<>>
    /\ streams[s].keepalives < MaxKeepalive
    /\ streams' = [streams EXCEPT ![s].keepalives = @ + 1]
    /\ UNCHANGED <<pipeline, agent_call, jobs, call, news_monitor>>

\* lines 227-228: the generator is closed or cancelled where it is suspended
StreamClose(s) ==
    /\ s \in DOMAIN streams
    /\ streams[s].pc \in {"replay", "waiting"}
    /\ streams' = [streams EXCEPT ![s].pc = "closed"]
    /\ news_monitor' = [news_monitor EXCEPT !.subscribers = unsubscribe(@, s)]
    /\ UNCHANGED <<pipeline, agent_call, jobs, call>>

NextNews ==
    \/ StartMonitor
    \/ StopMonitor
    \/ PollLoop
    \/ \E s \in StreamIds :
          \/ StreamOpen(s)
          \/ StreamReplay(s)
          \/ StreamGet(s)
          \/ StreamKeepalive(s)
          \/ StreamClose(s)

InitNews == InitStore /\ env = <<>>

SpecNews == InitNews /\ [][NextNews]_vars

-----------------------------------------------------------------------------
(* Properties *)

InFlight == {"snapshot", "metric", "format"}

\* the rows invocation r wrote
SnapshotsOf(r) == {snapshots[i] : i \in {j \in DOMAIN snapshots : snapshots[j].timestamp = r}}
MetricsOf(r) ==
    {metrics_history[i] : i \in {j \in DOMAIN metrics_history : metrics_history[j].timestamp = r}}
ProfilesOf(r) == {d \in companies : d.updated_at = r}
WroteNothing(r) ==
    /\ ProfilesOf(r) = {}
    /\ SnapshotsOf(r) = {}
    /\ MetricsOf(r) = {}
    /\ \A d \in knowledge : d._id[1] # r

\* the web corpus invocation r went into Stage B with
Corpus(r) == IF "web" \in DOMAIN runs[r].rag THEN runs[r].rag["web"].text ELSE <<>>

\* the chunk documents invocation r prepares from a corpus
DocsFor(r, slug, text) == KnowledgeDocs(slug, chunk_text(text, ChunkSize), "web", r)

\* C1: a run given a name or a url reaches persistence and returns a profile
\* whatever the crawl, the document parse, each specialist, the synthesis and
\* each indexing task gave (data, nothing, an exception): no sub-task outcome
\* makes it raise; only a refusal of the store itself does.
C1_NoSubtaskOutcomeRaises ==
    \A r \in Runs :
        (Truthy(runs[r].name) \/ Truthy(runs[r].url)) /\ runs[r].pc = "raised"
            => runs[r].cause = "storage"

\* C2: a run that upserts a profile that already exists leaves the stored
\* watchlist and monitoring of that profile exactly as they were.
C2_RunKeepsWatchlistAndMonitoring ==
    [][\A d \in companies : \A e \in companies' :
          (runs' # runs /\ e.slug = d.slug)
              => (e.watchlist = d.watchlist /\ e.monitoring = d.monitoring)]_vars

\* C3: a run given no name, no url and no document is rejected: it writes
\* nothing to any collection and returns no profile.
C3_NoIdentifierIsRejected ==
    \A r \in Runs :
        (runs[r].pc \notin {"idle", "notfound"}
         /\ ~Truthy(runs[r].name) /\ ~Truthy(runs[r].url) /\ ~Truthy(runs[r].doc))
            => (WroteNothing(r) /\ runs[r].upserts = 0 /\ runs[r].pc # "done")

\* C4 as written: after two runs, one after the other, under the same slug,
\* each of whose indexing tasks, where one was created, completed, the web
\* chunks of the slug are exactly the chunks of the second run's corpus, for
\* every corpus of the first and of the second run (an empty one gives none).
C4_SecondCorpusAlone ==
    (/\ runs[1].pc = "done" /\ runs[2].pc = "done"
     /\ runs[1].slug = runs[2].slug
     /\ \A src \in DOMAIN runs[2].rag : runs[2].rag[src].step = "done")
        => ChunksOf(runs[2].slug, "web") = DocsFor(2, runs[2].slug, Corpus(2))

\* C4: when a run's web indexing task completes with at least one chunk, the
\* web chunks of its slug are exactly the chunks of that run's corpus, whatever
\* an earlier run left there; when a later run under that slug has an empty
\* corpus, it creates no indexing task and the chunks stay as the earlier run
\* left them.
C4_ReindexReplaces ==
    \A r \in Runs :
        LET run == runs[r]
        IN  /\ ("web" \in DOMAIN run.rag
                /\ run.rag["web"].step = "done"
                /\ run.rag["web"].chunks # <<>>
                /\ \A q \in Runs :
                      (q > r /\ "web" \in DOMAIN runs[q].rag)
                          => runs[q].rag["web"].slug # run.rag["web"].slug)
                   => ChunksOf(run.rag["web"].slug, "web")
                        = DocsFor(r, run.rag["web"].slug, Corpus(r))
            /\ \A q \in Runs :
                 (/\ q > r
                  /\ "web" \in DOMAIN run.rag
                  /\ run.rag["web"].step = "done"
                  /\ run.rag["web"].chunks # <<>>
                  /\ runs[q].pc \notin {"idle", "stageA", "notfound"}
                  /\ runs[q].slug = run.rag["web"].slug
                  /\ "web" \notin DOMAIN runs[q].rag)
                    => ChunksOf(runs[q].slug, "web")
                         = DocsFor(r, runs[q].slug, Corpus(r))

\* two runs under one slug, both indexed, the second a different corpus, and
\* the stored chunks are the second's
C4_Witness ==
    /\ runs[1].pc = "done" /\ runs[2].pc = "done"
    /\ "web" \in DOMAIN runs[1].rag /\ "web" \in DOMAIN runs[2].rag
    /\ runs[1].rag["web"].step = "done" /\ runs[2].rag["web"].step = "done"
    /\ runs[1].rag["web"].slug = runs[2].rag["web"].slug
    /\ Corpus(1) # Corpus(2)
    /\ ChunksOf(runs[2].slug, "web") = DocsFor(2, runs[2].slug, Corpus(2))

\* C5: when an indexing task fails at any step (chunking, embedding, delete,
\* insert), the chunks stored for its (slug, source) before the task are still
\* there, unchanged.
C5_FailedIndexingKeepsPrior ==
    \A r \in Runs : \A src \in DOMAIN runs[r].rag :
        (runs[r].pc = "stageB" /\ runs[r].rag[src].step = "failed")
            => ChunksOf(runs[r].rag[src].slug, src) = runs[r].rag[src].prior

\* C6: when two runs index the same (slug, source) and both tasks complete,
\* the stored chunks are exactly those of one of the two runs, never a union
\* or a mix.
C6_OneRunsChunks ==
    \A r1, r2 \in Runs :
        (/\ r1 < r2
         /\ "web" \in DOMAIN runs[r1].rag /\ "web" \in DOMAIN runs[r2].rag
         /\ runs[r1].rag["web"].step = "done" /\ runs[r2].rag["web"].step = "done"
         /\ runs[r1].rag["web"].slug = runs[r2].rag["web"].slug)
            => ChunksOf(runs[r1].rag["web"].slug, "web")
                 \in {DocsFor(r1, runs[r1].rag["web"].slug, Corpus(r1)),
                      DocsFor(r2, runs[r2].rag["web"].slug, Corpus(r2))}

\* C7: the profiles collection holds at most one record per slug, and exactly
\* one for every slug under which a run completed its upsert.
C7_OneProfilePerSlug ==
    /\ \A d1, d2 \in companies : d1.slug = d2.slug => d1 = d2
    /\ \A r \in Runs :
          runs[r].upserts >= 1 => Cardinality(get_company(companies, runs[r].key)) = 1

\* two overlapping runs have both upserted under the same slug
C7_Witness ==
    /\ runs[1].upserts = 1 /\ runs[2].upserts = 1
    /\ runs[1].key = runs[2].key
    /\ Cardinality(get_company(companies, runs[1].key)) = 1

C9_OneUpsertAfterStageB ==
    \A r \in Runs :
        LET run == runs[r]
        IN  /\ run.upserts <= 1
            /\ Cardinality(ProfilesOf(r)) = run.upserts
            /\ run.upserts = 1 =>
                 /\ run.pc \in InFlight \cup {"done", "raised"}
                 /\ \A src \in DOMAIN run.rag : run.rag[src].step \in {"done", "failed"}
                 /\ run.pc \in InFlight => run.analysis # Pending
            /\ run.pc \in InFlight \cup {"done"} => run.upserts = 1
            /\ run.pc \in {"idle", "stageA", "stageB", "cancelled"} => run.upserts = 0
            /\ (run.pc = "raised" /\ run.cause = "analysis") => run.upserts = 0

\* a run with an indexing task has returned, its one upsert made
C9_Witness ==
    \E r \in Runs :
        /\ runs[r].pc = "done"
        /\ runs[r].upserts = 1
        /\ DOMAIN runs[r].rag = {"web", "document"}

\* C10: the key of the chunks, the key of the upserted profile, the slug of
\* the snapshot and the slug of the metric sample of one run are all the slug
\* derived after Stage A; none is computed again from the synthesized name.
C10_OneSlugThroughout ==
    \A r \in Runs :
        LET run == runs[r]
        IN  run.pc \in InFlight =>
              /\ run.slug = make_slug(run.temp_name)
              /\ run.key = run.slug
              /\ run.stored.slug = run.slug
              /\ \A src \in DOMAIN run.rag : run.rag[src].slug = run.slug
              /\ \A row \in SnapshotsOf(r) \cup MetricsOf(r) : row.slug = run.slug

\* C11: whenever the name given to a run is non-empty, the profile the run
\* persists is stored under the normalization of the working name (the given
\* name): lowercased, each run of characters outside [a-z0-9] one hyphen,
\* hyphens at both ends removed.
C11_SlugIsNormalizedName ==
    \A r \in Runs :
        (runs[r].pc \in InFlight /\ Truthy(runs[r].name))
            => /\ runs[r].temp_name = runs[r].name
               /\ runs[r].stored.slug = make_slug(runs[r].name)

\* C12: the working name is the given name when there is one, else the URL
\* the crawl found when there is one; the fixed label of document runs is used
\* only when the run was given neither a name nor a url.
C12_WorkingNamePrecedence ==
    \A r \in Runs :
        LET run == runs[r]
        IN  run.pc = "stageB" =>
              /\ Truthy(run.name) => run.temp_name = run.name
              /\ (~Truthy(run.name) /\ Truthy(Get(run.web_data, "url", <<>>)))
                    => run.temp_name = run.web_data.url
              /\ run.temp_name = UploadedDoc => (~Truthy(run.name) /\ ~Truthy(run.url))

\* C13: after the merge, a mission's topic is a key of agent_metrics exactly
\* when that mission's task settled without an exception and with a non-empty
\* result, whatever the other Stage A tasks gave; the value under the topic is
\* that result, unchanged.
C13_AgentMetricsKeys ==
    \A r \in Runs :
        LET run == runs[r]
        IN  run.pc = "stageB" =>
              /\ DOMAIN run.agent_metrics \subseteq Topics
              /\ run.web_data.agent_metrics = run.agent_metrics
              /\ \A i \in 1..Len(AGENT_MISSIONS) :
                    LET topic == AGENT_MISSIONS[i].topic
                        settled == /\ 2 + i \in DOMAIN run.results
                                   /\ run.results[2 + i].tag = "ok"
                                   /\ Truthy(run.results[2 + i].val)
                    IN  /\ topic \in DOMAIN run.agent_metrics <=> settled
                        /\ settled => run.agent_metrics[topic] = run.results[2 + i].val

\* the first and the third specialist delivered, the second raised, the crawl failed
C13_Witness ==
    \E r \in Runs :
        /\ runs[r].pc = "stageB"
        /\ Len(runs[r].results) = 2 + Len(AGENT_MISSIONS)
        /\ runs[r].results[1].tag = "exc"
        /\ runs[r].results[4].tag = "exc"
        /\ DOMAIN runs[r].agent_metrics = {"hiring_velocity", "pricing_model"}
        /\ runs[r].agent_metrics["pricing_model"] = JsonList

\* run r was given at least one of name, url, document
HasIdentifier(r) ==
    Truthy(runs[r].name) \/ Truthy(runs[r].url) \/ Truthy(runs[r].doc)

\* the synthesis of run r failed: its task settled with an exception, or the
\* completion call failed inside analyze_company
SynthesisFailed(r) ==
    \/ runs[r].analysis.tag = "exc"
    \/ /\ runs[r].analysis.tag = "ok"
       /\ runs[r].analysis.val =
             analyze_company(runs[r].name, runs[r].url, [tag |-> "error", val |-> <<>>])

\* C14: whatever the completion capability answers (an object, unparsable
\* text, JSON that is not an object, a timeout or another error), the run does
\* not raise because of it and the analysis it persists is an object.
C14_CompletionNeverRaises ==
    \A r \in Runs :
        HasIdentifier(r) =>
            /\ runs[r].pc = "raised" => runs[r].cause # "analysis"
            /\ runs[r].pc \in InFlight => IsDict(runs[r].stored.analysis)

\* C15: when the synthesis failed, by either path, and the crawl delivered
\* text, the persisted profile's analysis has the neutral sentiment and its
\* error field set.
C15_FailedSynthesisMarked ==
    \A r \in Runs :
        (/\ runs[r].pc \in InFlight
         /\ SynthesisFailed(r)
         /\ runs[r].results[1].tag = "ok"
         /\ Truthy(Get(runs[r].results[1].val, "raw", <<>>)))
            => /\ runs[r].stored.analysis.metrics.sentiment = "Neutral"
               /\ "error" \in DOMAIN runs[r].stored.analysis

\* C16: in every persisted profile the analysis' signal_strength lies in
\* 0..100 and its pmf_score in 1..10, whatever the completion returned.
C16_ScoresClamped ==
    \A r \in Runs :
        (HasIdentifier(r) /\ runs[r].pc \in InFlight) =>
            LET metrics == Get(runs[r].stored.analysis, "metrics", <<>>)
            IN  /\ "signal_strength" \in DOMAIN metrics
                      => metrics.signal_strength \in 0..100
                /\ "pmf_score" \in DOMAIN metrics => metrics.pmf_score \in 1..10

\* C17: a run returns a profile only when its upsert, its snapshot insert and
\* (when there are metrics) its metric-sample insert all succeeded; when one of
\* them fails the run ends as a failed call and returns nothing.
C17_StorageFailurePropagates ==
    \A r \in Runs :
        /\ runs[r].pc = "done" =>
              /\ runs[r].ret # <<>>
              /\ Cardinality(ProfilesOf(r)) = 1
              /\ Cardinality(SnapshotsOf(r)) = 1
              /\ Truthy(Get(runs[r].ret._raw.analysis, "metrics", <<>>))
                    => Cardinality(MetricsOf(r)) = 1
        /\ runs[r].pc = "raised" => runs[r].ret = <<>>

\* the metric-sample insert failed after the upsert and the snapshot: the run raised
C17_Witness ==
    \E r \in Runs :
        /\ runs[r].pc = "raised"
        /\ runs[r].cause = "storage"
        /\ runs[r].upserts = 1
        /\ SnapshotsOf(r) # {}
        /\ MetricsOf(r) = {}

\* C18: a refresh of an existing profile writes its profile under the slug it
\* was asked for, so the set of profile slugs stays as it was, and indexes its
\* chunks under that slug, whatever display name the earlier run stored.
C18_RefreshInPlace ==
    \A r \in Runs :
        (Truthy(runs[r].refresh) /\ runs[r].upserts = 1)
            => /\ runs[r].key = runs[r].refresh
               /\ \A src \in DOMAIN runs[r].rag : runs[r].rag[src].slug = runs[r].refresh

\* rows is still there, unchanged, at the front of rows2
IsPrefix(rows, rows2) ==
    /\ Len(rows) <= Len(rows2)
    /\ SubSeq(rows2, 1, Len(rows)) = rows

\* the positions of the rows invocation r wrote
SnapshotRows(r) == {j \in DOMAIN snapshots : snapshots[j].timestamp = r}
MetricRows(r) == {j \in DOMAIN metrics_history : metrics_history[j].timestamp = r}

\* C19: no step of a run, a refresh or a watchlist toggle modifies or removes
\* a snapshot row that exists, and when a run returns it has appended exactly
\* one snapshot, under its slug, holding its analysis and its agent_metrics.
C19_SnapshotsAppendOnly ==
    [][/\ IsPrefix(snapshots, snapshots')
       /\ \A r \in Runs :
            (runs[r].pc = "format" /\ runs'[r].pc = "done") =>
                /\ Cardinality(SnapshotRows(r)) = 1
                /\ \A j \in SnapshotRows(r) :
                      /\ snapshots[j].slug = runs[r].slug
                      /\ snapshots[j].data.analysis = Unpacked(runs[r])
                      /\ snapshots[j].data.agent_metrics = runs[r].agent_metrics]_vars

\* two runs under one slug have returned and both their snapshots are there
C19_Witness ==
    /\ runs[1].pc = "done" /\ runs[2].pc = "done"
    /\ Len(snapshots) = 2
    /\ snapshots[1].slug = snapshots[2].slug
    /\ snapshots[1].timestamp = 1 /\ snapshots[2].timestamp = 2

\* C20: when a run returns it has appended exactly one metric sample, under
\* its slug, if its analysis carries a non-empty metrics object, and none
\* otherwise; no step modifies or removes a metric sample that exists.
C20_MetricSamplesAppendOnly ==
    [][/\ IsPrefix(metrics_history, metrics_history')
       /\ \A r \in Runs :
            (runs[r].pc = "format" /\ runs'[r].pc = "done") =>
                IF Truthy(Get(Unpacked(runs[r]), "metrics", <<>>))
                THEN /\ Cardinality(MetricRows(r)) = 1
                     /\ \A j \in MetricRows(r) : metrics_history[j].slug = runs[r].slug
                ELSE MetricRows(r) = {}]_vars

\* two runs under one slug have returned: the first left a sample, the second,
\* whose analysis had no metrics, left none and the first's is still there
C20_Witness ==
    /\ runs[1].pc = "done" /\ runs[2].pc = "done"
    /\ runs[1].slug = runs[2].slug
    /\ "metrics" \notin DOMAIN runs[2].ret._raw.analysis
    /\ Len(metrics_history) = 1
    /\ metrics_history[1].timestamp = 1
    /\ metrics_history[1].slug = runs[1].slug

\* the fields of a profile that tests/test_e2e_live.py reads off the result
ProfileFields ==
    {"name", "slug", "description", "website", "analysis", "agent_metrics",
     "crawled_at", "updated_at", "watchlist", "monitoring"}

\* C21: the object a run returns carries at its top level the fields name, slug,
\* description, website, analysis, agent_metrics, crawled_at, updated_at,
\* watchlist and monitoring, and its slug is non-empty and finds the stored
\* profile through get_company.
C21_ReturnCarriesProfile ==
    \A r \in Runs :
        (HasIdentifier(r) /\ runs[r].pc = "done") =>
            /\ ProfileFields \subseteq DOMAIN runs[r].ret
            /\ Truthy(Get(runs[r].ret, "slug", <<>>))
            /\ get_company(companies, Get(runs[r].ret, "slug", <<>>)) # {}

\* a profile without the times the run stamped on it
WithoutTimes(p) ==
    [k \in DOMAIN p \ {"crawled_at", "updated_at"} |->
        IF k = "monitoring"
        THEN [j \in DOMAIN p[k] \ {"last_checked"} |-> p[k][j]]
        ELSE p[k]]

\* chunk documents without the identifier the store gave them
Contents(docs) == {[k \in DOMAIN d \ {"_id"} |-> d[k]] : d \in docs}

\* the chunks invocation r prepared for a source
PreparedBy(r, src) ==
    IF src \in DOMAIN runs[r].rag THEN runs[r].rag[src].chunks ELSE <<>>

SameInputs(r, q) ==
    /\ runs[r].name = runs[q].name
    /\ runs[r].url = runs[q].url
    /\ runs[r].doc = runs[q].doc

\* C22: two runs in immediate succession with identical inputs and
\* deterministic collaborators store profiles that are equal on every field
\* except the timestamps, and leave for each source exactly the chunks a single
\* run leaves.
C22_TwiceIsOnce ==
    (runs[1].pc = "done" /\ runs[2].pc = "done" /\ SameInputs(1, 2)) =>
        /\ WithoutTimes(runs[1].ret._raw) = WithoutTimes(runs[2].ret._raw)
        /\ \A src \in {"web", "document"} :
              LET once == KnowledgeDocs(runs[1].slug, PreparedBy(1, src), src, 1)
                  twice == ChunksOf(runs[2].slug, src)
              IN  /\ Contents(twice) = Contents(once)
                  /\ Cardinality(twice) = Cardinality(once)

C22_Witness ==
    /\ runs[1].pc = "done" /\ runs[2].pc = "done" /\ SameInputs(1, 2)
    /\ runs[2].upserts = 1
    /\ runs[2].ret._raw.updated_at = 2
    /\ \A src \in {"web", "document"} : Len(PreparedBy(2, src)) >= 2

\* the outcomes the task in slot k of Stage A can have
OwnOutcomes(run, k) ==
    CASE k = 1 -> IF Truthy(run.url) \/ Truthy(run.name)
                  THEN {crawl_company(Or(run.url, run.name), out) : out \in env.crawl}
                  ELSE {Ok([raw |-> <<>>])}
      [] k = 2 -> IF Truthy(run.doc)
                  THEN {parse_document(out) : out \in env.document}
                  ELSE {Ok(<<>>)}
      [] OTHER -> {agent_deep_dive(k - 2, tag) : tag \in env.agent}

\* C23: for fixed outcomes of the tasks, the merged corpus, agent_metrics, the
\* slug and the persisted profile do not depend on the order in which the
\* tasks settled: in every interleaving each slot of the gathered results
\* holds the outcome of its own task, the merge is the function Merged of
\* those slots, and the stored profile is the upsert of the function Profile
\* of the merge and the analysis.
C23_OrderIndependent ==
    \A r \in Runs :
        LET run == runs[r]
            m == Merged(run.name, run.results)
        IN  (run.pc \in {"stageB"} \cup InFlight) =>
                /\ \A k \in DOMAIN run.results : run.results[k] \in OwnOutcomes(run, k)
                /\ run.web_data = m.web_data
                /\ run.agent_metrics = m.agent_metrics
                /\ run.slug = m.slug
                /\ \A s \in DOMAIN run.rag :
                      run.rag[s].text = RagTasks(m)[s].text
                /\ run.pc \in InFlight =>
                      {run.stored} = store_company({}, Profile(run, r), r, r)

C23_Witness ==
    \E r \in Runs :
        /\ runs[r].pc \in InFlight
        /\ DOMAIN runs[r].stored.agent_metrics = Topics
        /\ DOMAIN runs[r].rag = {"web", "document"}
        /\ \A s \in DOMAIN runs[r].rag : runs[r].rag[s].step = "done"
        /\ runs[r].analysis = Ok(ObjFull)

\* C24: specialist tasks are launched only when name is present: a run with a
\* name has exactly one task per mission of the roster next to the crawl and
\* the document task, and a run without a name has none and persists an empty
\* agent_metrics.
C24_SpecialistsOnlyWithName ==
    \A r \in Runs :
        LET run == runs[r]
        IN  /\ run.pc \in {"stageA", "stageB"} \cup InFlight =>
                  DOMAIN run.results =
                      {1, 2} \cup (IF Truthy(run.name)
                                   THEN {2 + i : i \in 1..Len(AGENT_MISSIONS)}
                                   ELSE {})
            /\ (run.pc \in InFlight /\ ~Truthy(run.name)) =>
                  /\ run.stored.agent_metrics = <<>>
                  /\ \A d \in get_company(companies, run.key) : d.agent_metrics = <<>>

C24_Witness ==
    /\ \E r \in Runs :
          /\ runs[r].pc \in InFlight
          /\ ~Truthy(runs[r].name) /\ Truthy(runs[r].url)
          /\ get_company(companies, runs[r].key) # {}
    /\ env.agent # {"exc"}

\* the fields run_pipeline writes that no other operation writes
PipelineFields ==
    {"name", "slug", "description", "website", "crawled_at", "updated_at",
     "web_data", "document_data", "analysis", "agent_metrics", "monitoring"}

\* C25: when runs for the same slug overlap, both can complete, and the stored
\* profile is never a field-wise mix: every pipeline-written field of the
\* profile (watchlist aside, which the watchlist toggle also writes) is the
\* one the run whose upsert came last wrote, that run being the one whose time
\* the profile carries.
C25_LastUpsertWins ==
    \A r \in Runs : \A d \in companies :
        (runs[r].pc \in InFlight \cup {"done"}
            /\ d.slug = runs[r].key /\ d.updated_at = r) =>
            LET wrote == IF runs[r].pc = "done" THEN runs[r].ret._raw
                         ELSE Update(Profile(runs[r], r), [slug |-> runs[r].key])
            IN  \A k \in PipelineFields : d[k] = wrote[k]

\* both runs completed on the same profile with different analyses, and the
\* first caller's upsert came after the second caller's: the runs overlapped
C25_Witness ==
    /\ runs[1].pc = "done" /\ runs[2].pc = "done"
    /\ runs[1].key = runs[2].key
    /\ runs[1].ret._raw.analysis # runs[2].ret._raw.analysis
    /\ \E d \in companies : d.slug = runs[1].key /\ d.updated_at = 1

\* the slugs that knowledge chunks, snapshots or metric samples are stored under
RowSlugs ==
    {d.company_slug : d \in knowledge}
        \cup {snapshots[i].slug : i \in DOMAIN snapshots}
        \cup {metrics_history[i].slug : i \in DOMAIN metrics_history}

\* C26: whenever no run is in progress, also after a run that failed or was
\* cancelled, every slug that has knowledge chunks, snapshots or metric
\* samples has a profile record.
C26_NoOrphanRows ==
    (\A r \in Runs : runs[r].pc \notin Active) =>
        \A slug \in RowSlugs : get_company(companies, slug) # {}

\* C27: no run, refresh or watchlist toggle removes a profile, a snapshot or a
\* metric sample, and every knowledge chunk a step removes belongs to the
\* (slug, source) pair of the indexing task that is deleting at that step:
\* chunks of other slugs and of the other source of the slug stay.
C27_RemovesOnlyReindexed ==
    [][ /\ {d._id : d \in companies} \subseteq {d._id : d \in companies'}
        /\ {d.slug : d \in companies} \subseteq {d.slug : d \in companies'}
        /\ IsPrefix(snapshots, snapshots')
        /\ IsPrefix(metrics_history, metrics_history')
        /\ \A d \in knowledge \ knowledge' :
              \E r \in Runs : \E src \in DOMAIN runs[r].rag :
                  /\ runs[r].rag[src].step = "embedded"
                  /\ runs'[r].rag[src].step = "deleted"
                  /\ d.company_slug = runs[r].rag[src].slug
                  /\ d.source = src ]_vars

\* the second run has just deleted the web chunks of its slug, which the first
\* run had stored, and the document chunks of the slug are still there
C27_Witness ==
    /\ "web" \in DOMAIN runs[2].rag
    /\ runs[2].rag["web"].step = "deleted"
    /\ runs[2].rag["web"].prior # {}
    /\ ChunksOf(runs[2].slug, "web") = {}
    /\ \E d \in ChunksOf(runs[2].slug, "document") : d._id[1] = 1
    /\ companies # {} /\ snapshots # <<>> /\ metrics_history # <<>>

\* the labeled sections of the missions i.. whose topic is a key of am, in
\* roster order
RECURSIVE SectionsOf(_, _)
SectionsOf(am, i) ==
    IF i > Len(AGENT_MISSIONS) THEN <<>>
    ELSE (IF AGENT_MISSIONS[i].topic \in DOMAIN am
          THEN Section(AGENT_MISSIONS[i], am[AGENT_MISSIONS[i].topic])
          ELSE <<>>) \o SectionsOf(am, i + 1)

\* the text the crawl task brought, before the merge
CrawledText(run) ==
    IF run.results[1].tag = "exc" THEN <<>>
    ELSE Get(Value(run.results[1]), "raw", <<>>)

\* C28: after Stage A's merge the corpus is the crawled text followed by one
\* labeled section for each topic that is a key of agent_metrics and for no
\* other topic, in roster order; a specialist result is in both or in neither.
C28_SectionsMatchMetrics ==
    \A r \in Runs :
        LET run == runs[r]
        IN  (run.pc \in {"stageB"} \cup InFlight) =>
                /\ DOMAIN run.agent_metrics \subseteq Topics
                /\ run.web_data.raw =
                       CrawledText(run) \o SectionsOf(run.agent_metrics, 1)
                /\ \A i \in 1..Len(AGENT_MISSIONS) :
                      AGENT_MISSIONS[i].topic \in DOMAIN run.agent_metrics
                          <=> /\ 2 + i \in DOMAIN run.results
                              /\ run.results[2 + i].tag = "ok"
                              /\ Truthy(Value(run.results[2 + i]))

\* the first and the third specialist delivered, the second came back empty
C28_Witness ==
    \E r \in Runs :
        /\ runs[r].pc = "stageB"
        /\ DOMAIN runs[r].agent_metrics = {"hiring_velocity", "pricing_model"}
        /\ Len(runs[r].results) = 2 + Len(AGENT_MISSIONS)
        /\ runs[r].results[4] = Ok(<<>>)
        /\ runs[r].web_data.raw # CrawledText(runs[r])

\* Stage B's indexing tasks are the ones the merge calls for
TasksFollowSources ==
    \A r \in Runs :
        LET run == runs[r]
        IN  (run.pc \in {"stageB"} \cup InFlight) =>
                /\ "web" \in DOMAIN run.rag <=> Truthy(Get(run.web_data, "raw", <<>>))
                /\ "document" \in DOMAIN run.rag
                       <=> Truthy(Get(run.document_data, "extracted_text", <<>>))
                /\ \A s \in DOMAIN run.rag : run.rag[s].slug = run.slug

\* while a run is in Stage B without a task for a source, no step changes the
\* chunks stored for its slug and that source
UntaskedSourceKept ==
    \A r \in Runs : \A src \in {"web", "document"} :
        (runs[r].pc = "stageB" /\ src \notin DOMAIN runs[r].rag) =>
            {d \in knowledge' : d.company_slug = runs[r].slug /\ d.source = src}
                = ChunksOf(runs[r].slug, src)

\* C29: in Stage B a "web" indexing task is launched if and only if the merged
\* web corpus is non-empty and a "document" indexing task if and only if the
\* extracted document text is non-empty; without a task for a source, the
\* chunks stored for (slug, source) stay as they were.
C29_IndexingFollowsSources ==
    /\ []TasksFollowSources
    /\ [][UntaskedSourceKept]_vars

\* the second run went through Stage B with no indexing task at all, and the
\* chunks the first run stored for both sources of the slug are in place
C29_Witness ==
    /\ runs[2].pc \in InFlight
    /\ runs[2].rag = <<>>
    /\ \E d \in ChunksOf(runs[2].slug, "web") : d._id[1] = 1
    /\ \E d \in ChunksOf(runs[2].slug, "document") : d._id[1] = 1

\* the document-parse task of invocation r raised
ParseRaised(r) ==
    /\ Truthy(runs[r].doc)
    /\ Len(runs[r].results) >= 2
    /\ runs[r].results[2] = Exc

\* C30: when the document-parse task raised, the run goes on with null
\* document data and no "document" indexing task, a document-only run under
\* the working name "unknown", the profile it persists says so, and if the run
\* raises later it is for the storage or the analysis, not for the document.
C30_ParseFailureTolerated ==
    /\ [](\A r \in Runs :
            (runs[r].pc \in {"stageB"} \cup InFlight /\ ParseRaised(r)) =>
                /\ runs[r].document_data = <<>>
                /\ "document" \notin DOMAIN runs[r].rag
                /\ (~Truthy(runs[r].name) /\ ~Truthy(runs[r].url)) =>
                       runs[r].temp_name = Unknown
                /\ runs[r].pc \in InFlight =>
                       /\ runs[r].stored.document_data = <<>>
                       /\ get_company(companies, runs[r].key) # {})
    /\ [][\A r \in Runs :
            (runs[r].pc \in Active /\ ParseRaised(r) /\ runs'[r].pc = "raised") =>
                /\ runs'[r].cause \in {"storage", "analysis", "agent"}
                /\ runs[r].pc = "stageB" => StageBSettled(r)]_vars

\* a document-only run whose parse raised has persisted its profile and
\* snapshot and is about to return
C30_Witness ==
    \E r \in Runs :
        /\ runs[r].pc = "format"
        /\ ParseRaised(r)
        /\ ~Truthy(runs[r].name) /\ ~Truthy(runs[r].url)
        /\ runs[r].stored.slug = Unknown
        /\ \E i \in DOMAIN snapshots : snapshots[i].slug = Unknown

\* the ways a call of agent_deep_dive fails
CallFailures == {"timeout", "exception", "non200", "format", "failed", "exhausted"}

\* the gathered results of a run on a name whose specialists all answered v
AllSpecialistsGave(v) ==
    <<Ok([raw |-> <<>>]), Ok(<<>>)>> \o [i \in 1..Len(AGENT_MISSIONS) |-> Ok(v)]

\* C31: agent_deep_dive never raises to the orchestrator: a non-200 start
\* response, a timeout, any exception, a job reported failed and polling
\* exhaustion all end the call with an empty result, and a run whose
\* specialists all end so merges an empty agent_metrics.
C31_DeepDiveNeverRaises ==
    /\ agent_call.pc \in {"idle", "post", "poll", "returned"}
    /\ (agent_call.pc = "returned" /\ agent_call.why \in CallFailures) =>
          /\ agent_call.result = <<>>
          /\ Merged(NameAc, AllSpecialistsGave(agent_call.result)).agent_metrics = <<>>

\* the call returned after the job was polled to exhaustion
C31_Witness ==
    /\ agent_call.pc = "returned"
    /\ agent_call.why = "exhausted"
    /\ Len(agent_call.polls) = MaxPolls
    /\ agent_call.result = <<>>

\* what holds of the polling loop in every state
PollingBounded ==
    /\ agent_call.pc \in {"idle", "post", "poll", "returned"}
    /\ Len(agent_call.polls) <= MaxPolls
    /\ \A i \in 1..Len(agent_call.polls) :
          agent_call.polls[i] \in {"completed", "failed"} =>
              /\ i = Len(agent_call.polls)
              /\ agent_call.pc = "returned"
              /\ agent_call.why = agent_call.polls[i]
    /\ agent_call.pc = "poll" => agent_call.attempt = Len(agent_call.polls)
    /\ (agent_call.pc = "returned" /\ agent_call.why = "exhausted") =>
          /\ Len(agent_call.polls) = MaxPolls
          /\ agent_call.result = <<>>

\* C32: _poll_agent_job always terminates: it returns at the first poll that
\* reports completed or failed/error, and otherwise after at most max_polls
\* polls with an empty result; a non-200 poll or a poll exception consumes one
\* attempt and never raises.
C32_PollingTerminates ==
    /\ []PollingBounded
    /\ (agent_call.pc = "poll") ~> (agent_call.pc = "returned")

\* the job completed at the third poll, after a non-200 poll and a poll that
\* raised
C32_Witness ==
    /\ agent_call.pc = "returned"
    /\ agent_call.polls = <<"non200", "exception", "completed">>
    /\ agent_call.result = AgentDict(1)

\* what a job's fields say of each other
JobFieldsAgree ==
    \A j \in DOMAIN jobs :
        /\ jobs[j].status \in {"pending", "processing", "completed", "failed"}
        /\ jobs[j].isComplete <=> jobs[j].status \in {"completed", "failed"}
        /\ Truthy(jobs[j].results) <=> jobs[j].status = "completed"

\* the moves a step makes on the jobs
JobStatusMoves ==
    /\ \A j \in DOMAIN jobs :
          /\ j \in DOMAIN jobs'
          /\ <<jobs[j].status, jobs'[j].status>> \in
                {<<"pending", "pending">>, <<"pending", "processing">>,
                 <<"processing", "processing">>, <<"processing", "completed">>,
                 <<"processing", "failed">>, <<"completed", "completed">>,
                 <<"failed", "failed">>}
          /\ jobs[j].isComplete => jobs'[j] = jobs[j]
    /\ \A j \in DOMAIN jobs' \ DOMAIN jobs : jobs'[j].status = "pending"

\* C33: the status of every search job only moves pending -> processing ->
\* completed or pending -> processing -> failed, never backwards and never out
\* of completed or failed; isComplete is true exactly when the status is
\* completed or failed, and results are set exactly when it is completed.
C33_JobStatusMachine ==
    /\ []JobFieldsAgree
    /\ [][JobStatusMoves]_vars

\* the first job failed and the second completed with results
C33_Witness ==
    /\ DOMAIN jobs = {1, 2}
    /\ jobs[1].status = "failed" /\ jobs[1].isComplete
    /\ jobs[2].status = "completed" /\ jobs[2].isComplete
    /\ jobs[2].results._raw.slug = make_slug(NameAc)

\* C34: every search job reaches isComplete = true once its background task
\* has settled, whether the pipeline run returned, raised or was cancelled.
C34_SettledJobIsComplete ==
    \A j \in DOMAIN jobs : jobs[j].task = "settled" => jobs[j].isComplete

\* the loop as the greedy rule words it: the paragraph joins the current chunk
\* exactly when the length after adding it does not exceed the budget
RECURSIVE GreedyLoop(_, _, _, _)
GreedyLoop(ps, chunks, cur, chunk_size) ==
    IF ps = <<>>
    THEN IF Strip(cur, Whitespace) # <<>>
         THEN Append(chunks, Strip(cur, Whitespace))
         ELSE chunks
    ELSE LET p == Head(ps)
         IN  IF Len(cur) + Len(p) <= chunk_size
             THEN GreedyLoop(Tail(ps), chunks, cur \o p \o Sep, chunk_size)
             ELSE GreedyLoop(Tail(ps),
                             IF Strip(cur, Whitespace) # <<>>
                             THEN Append(chunks, Strip(cur, Whitespace))
                             ELSE chunks,
                             p \o Sep, chunk_size)

\* C35: chunk_text packs paragraphs greedily against the budget: the next
\* paragraph is added to the current chunk exactly when the chunk's length
\* after adding it does not exceed chunk_size, otherwise the current chunk is
\* sealed and a new one started; the trailing chunk is kept when non-empty.
C35_GreedyAgainstBudget ==
    call.fn = "chunk_text" =>
        call.chunks = GreedyLoop(Split(call.text, <<>>), <<>>, <<>>, ChunkSize)

\* the non-blank paragraphs of a text, each without its outer white space
RECURSIVE Stripped(_)
Stripped(ps) ==
    IF ps = <<>> THEN <<>>
    ELSE IF Strip(Head(ps), Whitespace) = <<>> THEN Stripped(Tail(ps))
    ELSE <<Strip(Head(ps), Whitespace)>> \o Stripped(Tail(ps))

ParagraphsOf(text) == Stripped(Split(text, <<>>))

\* the non-blank paragraphs of the chunks, chunk after chunk
RECURSIVE ParagraphsAcross(_)
ParagraphsAcross(chunks) ==
    IF chunks = <<>> THEN <<>>
    ELSE ParagraphsOf(Head(chunks)) \o ParagraphsAcross(Tail(chunks))

\* C37: chunk_text loses and invents no text: the non-blank paragraphs of the
\* chunks, taken chunk after chunk, are the non-blank paragraphs of the input
\* in input order, each once; no chunk is empty, and an empty input yields no
\* chunks.
C37_NoTextLostOrInvented ==
    call.fn = "chunk_text" =>
        /\ ParagraphsAcross(call.chunks) = ParagraphsOf(call.text)
        /\ \A i \in 1..Len(call.chunks) : call.chunks[i] # <<>>
        /\ call.text = <<>> => call.chunks = <<>>

\* a text of three non-blank paragraphs came back as more than one chunk
C37_Witness ==
    /\ call.fn = "chunk_text"
    /\ Len(ParagraphsOf(call.text)) = 3
    /\ Len(call.chunks) >= 2
    /\ \E i \in 1..Len(call.chunks) : Len(ParagraphsOf(call.chunks[i])) = 2

\* the call, the parse or an integer conversion of the call failed
ScoringFailed ==
    \/ call.completion.tag # "json"
    \/ ~IsJson(call.completion.val)
    \/ /\ IsDict(call.completion.val)
       /\ \E key \in ScoreKeys \cap DOMAIN call.completion.val :
             "raise" \in DOMAIN PyInt(call.completion.val[key])

\* C36: every one of the five scores present in the result of
\* calculate_vector_scores is an integer in [0,100], whatever the completion
\* answered; when the call, the parse or the integer conversion fails, all
\* five scores are 50 and the error field is set.
C36_VectorScoresInRange ==
    call.fn = "calculate_vector_scores" =>
        /\ \A key \in ScoreKeys \cap DOMAIN call.result :
              /\ call.result[key].t = "int"
              /\ call.result[key]["int"] \in 0..100
        /\ ScoringFailed =>
              /\ \A key \in ScoreKeys :
                    key \in DOMAIN call.result /\ call.result[key] = JsonValue("int", 50)
              /\ "error" \in DOMAIN call.result

\* an answer with one score above the range and one below came back clamped
C36_Witness ==
    /\ call.fn = "calculate_vector_scores"
    /\ call.completion.tag = "json"
    /\ IsJson(call.completion.val) /\ IsDict(call.completion.val)
    /\ DOMAIN call.completion.val
          = {"hiring_velocity", "market_momentum", "reasoning"}
    /\ call.completion.val.hiring_velocity = JsonValue("int", 150)
    /\ call.completion.val.market_momentum = JsonValue("float", <<-5, 10>>)
    /\ call.result.hiring_velocity = JsonValue("int", 100)
    /\ call.result.market_momentum = JsonValue("int", 0)

\* the step appends, to rows, a row that carries the stamp of invocation r
Appends(rows, rows2, r) ==
    \E j \in DOMAIN rows2 \ DOMAIN rows : rows2[j].timestamp = r

\* C38: within one run the snapshot insert happens only after that run's
\* profile upsert has succeeded, and the metric-sample insert only after the
\* snapshot insert has succeeded; a run whose profile upsert failed has
\* written neither a snapshot nor a metric sample.
C38_WritesInOrder ==
    /\ [](\A r \in Runs :
            /\ SnapshotRows(r) # {} => runs[r].upserts = 1
            /\ MetricRows(r) # {} => SnapshotRows(r) # {}
            /\ runs[r].upserts = 0 => SnapshotRows(r) = {} /\ MetricRows(r) = {})
    /\ [][\A r \in Runs :
            /\ Appends(snapshots, snapshots', r) =>
                  /\ runs[r].pc = "snapshot"
                  /\ runs[r].upserts = 1
                  /\ ProfilesOf(r) # {}
            /\ Appends(metrics_history, metrics_history', r) =>
                  /\ runs[r].pc = "metric"
                  /\ SnapshotRows(r) # {}]_vars

\* the profile upsert of a run failed after its Stage B had settled: the run
\* raised and left neither a snapshot nor a metric sample
C38_Witness ==
    \E r \in Runs :
        /\ runs[r].pc = "raised"
        /\ runs[r].cause = "storage"
        /\ runs[r].upserts = 0
        /\ ProfilesOf(r) = {}
        /\ SnapshotRows(r) = {}
        /\ MetricRows(r) = {}

\* the items of the broadcasts made while queue s was subscribed, in order
RECURSIVE BroadcastTo(_, _)
BroadcastTo(log, s) ==
    IF log = <<>> THEN <<>>
    ELSE IF s \in Head(log).to
    THEN <<Head(log).item>> \o BroadcastTo(Tail(log), s)
    ELSE BroadcastTo(Tail(log), s)

\* what queue s was ever given: what was taken off it, then what is on it
Received(s) == streams[s].got \o streams[s].queue

\* C39: every item the poll loop broadcasts is delivered, in broadcast order
\* and exactly once, to every queue subscribed at the moment of the
\* broadcast; a queue receives nothing after it is unsubscribed, and a stream
\* that has ended has unsubscribed its queue.
C39_BroadcastReachesSubscribers ==
    /\ [](\A s \in DOMAIN streams :
            /\ Received(s) = BroadcastTo(news_monitor.broadcasts, s)
            /\ \A i, j \in DOMAIN Received(s) :
                  Received(s)[i].id = Received(s)[j].id => i = j
            /\ streams[s].pc = "closed" <=> s \notin Elements(news_monitor.subscribers))
    /\ [][\A s \in DOMAIN streams :
            s \notin Elements(news_monitor.subscribers)
                => streams'[s].queue = streams[s].queue]_vars

\* two items were broadcast to a queue subscribed throughout, a second queue
\* was unsubscribed between them and holds the first only
C39_Witness ==
    /\ DOMAIN streams = StreamIds
    /\ Len(news_monitor.broadcasts) = 2
    /\ \E s, t \in StreamIds :
          /\ streams[s].pc = "waiting"
          /\ Len(Received(s)) = 2
          /\ Received(s)[1].id = 1 /\ Received(s)[2].id = 2
          /\ streams[t].pc = "closed"
          /\ Len(Received(t)) = 1
          /\ Received(t)[1].id = 1

=============================================================================
